---- MODULE Spec2Model ----
(***************************************************************************)
(* Model of the M.A.S.H. IoT Arduino firmware: the serial-liveness         *)
(* watchdog (safety.cpp), the multiplexed SCD41 acquisition pipeline       *)
(* (sensors.cpp) and the main control loop that uses both (main.cpp).      *)
(***************************************************************************)
EXTENDS Integers, Sequences, FiniteSets, TLC

(***************************************************************************)
(* unsigned long (32 bit) values are kept as <<high half, low half>> so    *)
(* that millis() arithmetic wraps modulo 2^32 exactly as on the target.    *)
(***************************************************************************)
Half == 65536

U32(n) == <<(n \div Half) % Half, n % Half>>

Add32(a, b) ==
    LET lo == a[2] + b[2]
    IN  <<(a[1] + b[1] + (lo \div Half)) % Half, lo % Half>>

Sub32(a, b) ==
    LET lo     == a[2] - b[2]
        borrow == IF lo < 0 THEN 1 ELSE 0
    IN  <<(a[1] - b[1] - borrow) % Half, lo % Half>>

Gt32(a, b) == a[1] > b[1] \/ (a[1] = b[1] /\ a[2] > b[2])

Ge32(a, b) == a = b \/ Gt32(a, b)

(***************************************************************************)
(* Bounds of the model.                                                    *)
(***************************************************************************)
MaxTicks == 5

\* clock values at which a watchdog object is constructed: boot, and a
\* little before the 32-bit millisecond clock wraps
StartClocks == {U32(0), Sub32(U32(0), U32(600))}

\* amounts of time (ms) that may pass between two watchdog calls
TickSteps == {1, 100, 500, 1000}

\* timeout the stand-alone watchdog is constructed with
ScenarioTimeout == 1000

(***************************************************************************)
(* SafetyWatchdog (safety.h / safety.cpp).  Each method is an operator     *)
(* from the object w and the value ms that millis() returns during the     *)
(* call to the new object and the method's return value.                   *)
(***************************************************************************)
SafetyWatchdog(timeoutMs) ==
    [ timeout       |-> timeoutMs,
      lastHeartbeat |-> U32(0),
      isActive      |-> FALSE,
      hasTriggered  |-> FALSE,
      triggeredAt   |-> U32(0),
      recoveryCount |-> 0 ]

beginInactive(w, ms) ==
    [ w EXCEPT !.lastHeartbeat = ms,
               !.hasTriggered  = FALSE,
               !.triggeredAt   = U32(0),
               !.recoveryCount = 0 ]

begin(w, ms) ==
    [ w EXCEPT !.lastHeartbeat = ms,
               !.isActive      = TRUE,
               !.hasTriggered  = FALSE,
               !.triggeredAt   = U32(0),
               !.recoveryCount = 0 ]

heartbeatKeepsTriggered(w, ms) ==
    LET w1 == [w EXCEPT !.lastHeartbeat = ms]
    IN  IF w1.hasTriggered
        THEN [ w   |-> [w1 EXCEPT !.triggeredAt = U32(0),
                                  !.recoveryCount = w1.recoveryCount + 1],
               ret |-> TRUE ]
        ELSE [ w |-> w1, ret |-> FALSE ]

heartbeatCountsEvery(w, ms) ==
    LET w1 == [w EXCEPT !.lastHeartbeat = ms,
                        !.recoveryCount = w.recoveryCount + 1]
    IN  IF w1.hasTriggered
        THEN [ w   |-> [w1 EXCEPT !.hasTriggered = FALSE,
                                  !.triggeredAt  = U32(0)],
               ret |-> TRUE ]
        ELSE [ w |-> w1, ret |-> FALSE ]

heartbeatUncounted(w, ms) ==
    LET w1 == [w EXCEPT !.lastHeartbeat = ms]
    IN  IF w1.hasTriggered
        THEN [ w   |-> [w1 EXCEPT !.hasTriggered = FALSE,
                                  !.triggeredAt  = U32(0)],
               ret |-> TRUE ]
        ELSE [ w |-> w1, ret |-> FALSE ]

heartbeat(w, ms) ==
    LET w1 == [w EXCEPT !.lastHeartbeat = ms]
    IN  IF w1.hasTriggered
        THEN [ w   |-> [w1 EXCEPT !.hasTriggered  = FALSE,
                                  !.triggeredAt   = U32(0),
                                  !.recoveryCount = w1.recoveryCount + 1],
               ret |-> TRUE ]
        ELSE [ w |-> w1, ret |-> FALSE ]

getTimeSinceLastHeartbeat(w, ms) == Sub32(ms, w.lastHeartbeat)

checkTimeoutLevelTriggered(w, ms) ==
    IF ~w.isActive
    THEN [ w |-> w, ret |-> FALSE ]
    ELSE LET elapsed == Sub32(ms, w.lastHeartbeat)
         IN  IF Gt32(elapsed, w.timeout)
             THEN [ w   |-> [w EXCEPT !.hasTriggered = TRUE,
                                      !.triggeredAt  = ms],
                    ret |-> TRUE ]
             ELSE [ w |-> w, ret |-> FALSE ]

checkTimeoutInclusive(w, ms) ==
    IF ~w.isActive
    THEN [ w |-> w, ret |-> FALSE ]
    ELSE LET elapsed == Sub32(ms, w.lastHeartbeat)
         IN  IF Ge32(elapsed, w.timeout) /\ ~w.hasTriggered
             THEN [ w   |-> [w EXCEPT !.hasTriggered = TRUE,
                                      !.triggeredAt  = ms],
                    ret |-> TRUE ]
             ELSE [ w |-> w, ret |-> FALSE ]

checkTimeoutUnarmed(w, ms) ==
    LET elapsed == Sub32(ms, w.lastHeartbeat)
    IN  IF Gt32(elapsed, w.timeout) /\ ~w.hasTriggered
        THEN [ w   |-> [w EXCEPT !.hasTriggered = TRUE,
                                 !.triggeredAt  = ms],
               ret |-> TRUE ]
        ELSE [ w |-> w, ret |-> FALSE ]

checkTimeoutDeadline(w, ms) ==
    IF ~w.isActive
    THEN [ w |-> w, ret |-> FALSE ]
    ELSE LET deadline == Add32(w.lastHeartbeat, w.timeout)
         IN  IF Gt32(ms, deadline) /\ ~w.hasTriggered
             THEN [ w   |-> [w EXCEPT !.hasTriggered = TRUE,
                                      !.triggeredAt  = ms],
                    ret |-> TRUE ]
             ELSE [ w |-> w, ret |-> FALSE ]

checkTimeout(w, ms) ==
    IF ~w.isActive
    THEN [ w |-> w, ret |-> FALSE ]
    ELSE LET elapsed == Sub32(ms, w.lastHeartbeat)
         IN  IF Gt32(elapsed, w.timeout) /\ ~w.hasTriggered
             THEN [ w   |-> [w EXCEPT !.hasTriggered = TRUE,
                                      !.triggeredAt  = ms],
                    ret |-> TRUE ]
             ELSE [ w |-> w, ret |-> FALSE ]

resetKeepsTriggered(w, ms) ==
    [ w EXCEPT !.lastHeartbeat = ms,
               !.triggeredAt   = U32(0) ]

reset(w, ms) ==
    [ w EXCEPT !.lastHeartbeat = ms,
               !.hasTriggered  = FALSE,
               !.triggeredAt   = U32(0) ]

isSafe(w) == ~w.hasTriggered

getRecoveryCount(w) == w.recoveryCount

(***************************************************************************)
(* float (IEEE-754 binary32, the only floating type on the AVR target).    *)
(* A float is kept as an integer number of units, TempUnit-ths of a degree *)
(* for temperatures and HumUnit-ths of a percent for humidities; a value   *)
(* is representable iff it has at most 24 significant bits.  Every         *)
(* operation rounds its exact result to the nearest representable value,   *)
(* ties to even.  Results finer than one unit are rounded to the unit, so  *)
(* the operators are exact binary32 for results of magnitude >= 2^23 units *)
(* (2 degrees, 4 percent) and for results that are whole units.            *)
(***************************************************************************)
MantissaLimit == 16777216

TempUnit == 4194304

HumUnit == 2097152

Abs(x) == IF x < 0 THEN 0 - x ELSE x

RECURSIVE UlpFrom(_, _)
UlpFrom(a, u) == IF a \div u < MantissaLimit THEN u ELSE UlpFrom(a, 2 * u)

Ulp(a) == UlpFrom(a, 1)

\* num / den (num >= 0, den > 0) rounded to the nearest multiple of u
RoundQuot(num, den, u) ==
    LET d == den * u
        m == num \div d
        r == num % d
    IN  IF 2 * r > d \/ (2 * r = d /\ m % 2 = 1)
        THEN (m + 1) * u
        ELSE m * u

RoundF(x) ==
    LET a == Abs(x)
        v == RoundQuot(a, 1, Ulp(a))
    IN  IF x < 0 THEN 0 - v ELSE v

FAdd(a, b) == RoundF(a + b)

FSub(a, b) == RoundF(a - b)

FDiv(a, n) ==
    LET m == Abs(a)
        v == RoundQuot(m, n, Ulp(m \div n))
    IN  IF a < 0 THEN 0 - v ELSE v

(***************************************************************************)
(* config.h                                                                *)
(***************************************************************************)
TEMP_MIN == (0 - 10) * TempUnit

TEMP_MAX == 60 * TempUnit

HUMIDITY_MIN == 0

HUMIDITY_MAX == 100 * HumUnit

CO2_MIN == 400

CO2_MAX == 5000

FILTER_SIZE == 5

WATCHDOG_TIMEOUT == 600000

SENSOR_READ_INTERVAL == 5000

\* not defined in any file under src/: the recovery threshold of the
\* design ("design default 3")
I2C_RECOVERY_RETRIES == 3

(***************************************************************************)
(* MovingAverageFilter (sensors.cpp)                                       *)
(***************************************************************************)
MovingAverageFilter(filterSize) ==
    [ size   |-> filterSize,
      buffer |-> [i \in 0 .. filterSize - 1 |-> 0],
      index  |-> 0,
      count  |-> 0,
      sum    |-> 0 ]

getAverageBySize(f) == IF f.count = 0 THEN 0 ELSE FDiv(f.sum, f.size)

getAverage(f) == IF f.count = 0 THEN 0 ELSE FDiv(f.sum, f.count)

addWithoutEviction(f, value) ==
    LET sum2 == FAdd(f.sum, value)
        g    == [ f EXCEPT !.buffer[f.index] = value,
                           !.sum   = sum2,
                           !.index = (f.index + 1) % f.size,
                           !.count = IF f.count < f.size
                                     THEN f.count + 1 ELSE f.count ]
    IN  [ f |-> g, ret |-> getAverage(g) ]

add(f, value) ==
    LET sum1 == FSub(f.sum, f.buffer[f.index])
        sum2 == FAdd(sum1, value)
        g    == [ f EXCEPT !.buffer[f.index] = value,
                           !.sum   = sum2,
                           !.index = (f.index + 1) % f.size,
                           !.count = IF f.count < f.size
                                     THEN f.count + 1 ELSE f.count ]
    IN  [ f |-> g, ret |-> getAverage(g) ]

filterReset(f) ==
    [ f EXCEPT !.index  = 0,
               !.count  = 0,
               !.sum    = 0,
               !.buffer = [i \in 0 .. f.size - 1 |-> 0] ]

(***************************************************************************)
(* recoverI2CBus: sdaRelease is the number of the clock pulse after which  *)
(* the data line reads high (0: it never does).  Returns the number of     *)
(* pulses issued and whether the data line was seen released.              *)
(***************************************************************************)
RECURSIVE TogglePulses(_, _)
TogglePulses(i, sdaRelease) ==
    IF i >= 9 THEN [pulses |-> 9, released |-> FALSE]
    ELSE IF sdaRelease # 0 /\ i + 1 >= sdaRelease
         THEN [pulses |-> i + 1, released |-> TRUE]
         ELSE TogglePulses(i + 1, sdaRelease)

recoverI2CBus(sdaRelease) == TogglePulses(0, sdaRelease)

(***************************************************************************)
(* recoverI2CBus statement by statement.  The record it works on holds     *)
(* the position in the function (pc), whether the bus driver is enabled    *)
(* (wire: Wire.begin() called and not undone by Wire.end()), the modes of  *)
(* the clock and data pins, the loop counter i, the number of clock pulses *)
(* issued, the behaviour of the data line (sdaRelease, as above) and the   *)
(* trace of what was done to the bus, in order.                            *)
(***************************************************************************)
I2CBus ==
    [ pc |-> "idle", wire |-> TRUE, sclMode |-> "wire", sdaMode |-> "wire",
      i |-> 0, pulses |-> 0, sdaRelease |-> 0, trace |-> <<>> ]

\* what digitalRead(HARDWARE_SDA_PIN) == HIGH evaluates to
sdaHigh(r) == r.sdaRelease # 0 /\ r.pulses >= r.sdaRelease

\* the call: control enters the function
recoverEnter(r, sdaRelease) ==
    [ r EXCEPT !.pc = "Wire.end", !.i = 0, !.pulses = 0,
               !.sdaRelease = sdaRelease, !.trace = <<>> ]

\* the test of the data line that ends a loop iteration
afterSampleNoBreak(r, high) ==
    [ r EXCEPT !.pc = "for", !.i = r.i + 1,
               !.trace = Append(r.trace,
                                IF high THEN "read:HIGH" ELSE "read:LOW") ]

afterSample(r, high) ==
    IF high
    THEN [ r EXCEPT !.pc = "stop", !.trace = Append(r.trace, "read:HIGH") ]
    ELSE [ r EXCEPT !.pc = "for", !.i = r.i + 1,
                    !.trace = Append(r.trace, "read:LOW") ]

\* Wire.begin(), the timeout setting and the settling delay
wireBeginSkipped(r) ==
    [ r EXCEPT !.pc = "return" ]

wireBegin(r) ==
    [ r EXCEPT !.pc = "return", !.wire = TRUE, !.sclMode = "wire",
               !.sdaMode = "wire", !.trace = Append(r.trace, "Wire.begin") ]

recoverStep(r) ==
    CASE r.pc = "Wire.end" ->
           [ r EXCEPT !.pc = "pinMode", !.wire = FALSE,
                      !.trace = Append(r.trace, "Wire.end") ]
      [] r.pc = "pinMode" ->
           [ r EXCEPT !.pc = "for", !.sclMode = "OUTPUT",
                      !.sdaMode = "INPUT_PULLUP",
                      !.trace = r.trace \o <<"SCL:OUTPUT",
                                             "SDA:INPUT_PULLUP">> ]
      [] r.pc = "for" ->
           [ r EXCEPT !.pc = IF r.i < 9 THEN "pulse" ELSE "stop" ]
      [] r.pc = "pulse" ->
           [ r EXCEPT !.pc = "digitalRead", !.pulses = r.pulses + 1,
                      !.trace = Append(r.trace, "pulse") ]
      [] r.pc = "digitalRead" -> afterSample(r, sdaHigh(r))
      [] r.pc = "stop" ->
           [ r EXCEPT !.pc = "Wire.begin", !.sdaMode = "OUTPUT",
                      !.trace = r.trace \o <<"SDA:OUTPUT", "SDA:LOW",
                                             "SCL:HIGH", "SDA:HIGH">> ]
      [] r.pc = "Wire.begin" -> wireBegin(r)
      [] r.pc = "return" -> [ r EXCEPT !.pc = "idle" ]
      [] OTHER -> r

(***************************************************************************)
(* SensorManager (sensors.cpp)                                             *)
(***************************************************************************)
SensorReading(t, h, c, v, ts) ==
    [ temperature |-> t, humidity |-> h, co2 |-> c,
      isValid |-> v, timestamp |-> ts ]

SensorManager ==
    [ tempFilter1     |-> MovingAverageFilter(FILTER_SIZE),
      humidityFilter1 |-> MovingAverageFilter(FILTER_SIZE),
      tempFilter2     |-> MovingAverageFilter(FILTER_SIZE),
      humidityFilter2 |-> MovingAverageFilter(FILTER_SIZE),
      lastReading1    |-> SensorReading(0, 0, 0, FALSE, U32(0)),
      lastReading2    |-> SensorReading(0, 0, 0, FALSE, U32(0)) ]

\* channel > 7 fails without a transaction; otherwise the result is whether
\* the multiplexer acknowledged (endTransmission() == 0)
selectMuxChannelAbove8(channel, muxAck) ==
    IF channel > 8 THEN FALSE ELSE muxAck

selectMuxChannel(channel, muxAck) == IF channel > 7 THEN FALSE ELSE muxAck

\* the calls selectMuxChannel() makes on the bus driver, in order
selectMuxBus(channel, muxAck) ==
    IF channel > 7 THEN <<>>
    ELSE <<"beginTransmission", "write", "endTransmission">>

MUX_CHANNEL_FRUITING == 0

MUX_CHANNEL_SPAWNING == 1

validateReadingExclusive(temp, humidity, co2) ==
    IF temp < TEMP_MIN \/ temp >= TEMP_MAX THEN FALSE
    ELSE IF humidity < HUMIDITY_MIN \/ humidity > HUMIDITY_MAX THEN FALSE
    ELSE IF co2 < CO2_MIN \/ co2 > CO2_MAX THEN FALSE
    ELSE TRUE

validateReading(temp, humidity, co2) ==
    IF temp < TEMP_MIN \/ temp > TEMP_MAX THEN FALSE
    ELSE IF humidity < HUMIDITY_MIN \/ humidity > HUMIDITY_MAX THEN FALSE
    ELSE IF co2 < CO2_MIN \/ co2 > CO2_MAX THEN FALSE
    ELSE TRUE

\* i2cFailCount++ (uint8_t) followed by the threshold test: the new
\* counter and whether recoverI2CBus() is called
countFailureAbove(cnt) ==
    LET c == (cnt + 1) % 256
    IN  IF c > I2C_RECOVERY_RETRIES
        THEN [count |-> 0, recover |-> TRUE]
        ELSE [count |-> c, recover |-> FALSE]

countFailureNoReset(cnt) ==
    LET c == (cnt + 1) % 256
    IN  IF c >= I2C_RECOVERY_RETRIES
        THEN [count |-> c, recover |-> TRUE]
        ELSE [count |-> c, recover |-> FALSE]

countFailure(cnt) ==
    LET c == (cnt + 1) % 256
    IN  IF c >= I2C_RECOVERY_RETRIES
        THEN [count |-> 0, recover |-> TRUE]
        ELSE [count |-> c, recover |-> FALSE]

\* the two bus-failure exits of readSensor1/readSensor2: count the failure,
\* recover at the threshold, return the last reading
busFailureCountStands(s, cnt, lastReading, in) ==
    LET f == countFailure(cnt)
    IN  [ sensors      |-> s,
          i2cFailCount |-> (cnt + 1) % 256,
          reading      |-> lastReading,
          recovered    |-> f.recover,
          recovery     |-> IF f.recover THEN recoverI2CBus(in.sdaRelease)
                           ELSE [pulses |-> 0, released |-> FALSE] ]

busFailure(s, cnt, lastReading, in) ==
    LET f == countFailure(cnt)
    IN  [ sensors      |-> s,
          i2cFailCount |-> f.count,
          reading      |-> lastReading,
          recovered    |-> f.recover,
          recovery     |-> IF f.recover THEN recoverI2CBus(in.sdaRelease)
                           ELSE [pulses |-> 0, released |-> FALSE] ]

fallbackResetsCount(s, cnt, lastReading) ==
    [ sensors      |-> s,
      i2cFailCount |-> 0,
      reading      |-> lastReading,
      recovered    |-> FALSE,
      recovery     |-> [pulses |-> 0, released |-> FALSE] ]

fallbackInvalid(s, cnt, lastReading) ==
    [ sensors      |-> s,
      i2cFailCount |-> cnt,
      reading      |-> [lastReading EXCEPT !.isValid = FALSE],
      recovered    |-> FALSE,
      recovery     |-> [pulses |-> 0, released |-> FALSE] ]

fallbackFresh(s, cnt, lastReading) ==
    [ sensors      |-> s,
      i2cFailCount |-> cnt,
      reading      |-> SensorReading(0, 0, 0, FALSE, U32(0)),
      recovered    |-> FALSE,
      recovery     |-> [pulses |-> 0, released |-> FALSE] ]

fallbackCounted(s, cnt, lastReading) ==
    LET f == countFailure(cnt)
    IN  [ sensors      |-> s,
          i2cFailCount |-> f.count,
          reading      |-> lastReading,
          recovered    |-> f.recover,
          recovery     |-> IF f.recover THEN recoverI2CBus(0)
                           ELSE [pulses |-> 0, released |-> FALSE] ]

\* the exits for a device error, a zero concentration and an out-of-range
\* sample: return the last reading
fallback(s, cnt, lastReading) ==
    [ sensors      |-> s,
      i2cFailCount |-> cnt,
      reading      |-> lastReading,
      recovered    |-> FALSE,
      recovery     |-> [pulses |-> 0, released |-> FALSE] ]

readSensor1FiltersUnvalidated(s, cnt, ms, in) ==
    IF ~selectMuxChannel(MUX_CHANNEL_FRUITING, in.muxAck)
    THEN busFailure(s, cnt, s.lastReading1, in)
    ELSE IF in.wireTimeout
    THEN busFailure(s, cnt, s.lastReading1, in)
    ELSE IF in.error # 0 \/ in.co2 = 0
    THEN fallback(s, cnt, s.lastReading1)
    ELSE LET t == add(s.tempFilter1, in.temp)
             h == add(s.humidityFilter1, in.hum)
             reading == SensorReading(t.ret, h.ret, in.co2, TRUE, ms)
             s1 == [s EXCEPT !.tempFilter1     = t.f,
                             !.humidityFilter1 = h.f]
         IN  IF ~validateReading(in.temp, in.hum, in.co2)
             THEN fallback(s1, cnt, s.lastReading1)
             ELSE [ sensors      |-> [s1 EXCEPT !.lastReading1 = reading],
                    i2cFailCount |-> 0,
                    reading      |-> reading,
                    recovered    |-> FALSE,
                    recovery     |-> [pulses |-> 0, released |-> FALSE] ]

readSensor1ZeroCounted(s, cnt, ms, in) ==
    IF ~selectMuxChannel(MUX_CHANNEL_FRUITING, in.muxAck)
    THEN busFailure(s, cnt, s.lastReading1, in)
    ELSE IF in.wireTimeout \/ in.co2 = 0
    THEN busFailure(s, cnt, s.lastReading1, in)
    ELSE IF in.error # 0
    THEN fallback(s, cnt, s.lastReading1)
    ELSE IF ~validateReading(in.temp, in.hum, in.co2)
    THEN fallback(s, cnt, s.lastReading1)
    ELSE LET t == add(s.tempFilter1, in.temp)
             h == add(s.humidityFilter1, in.hum)
             reading == SensorReading(t.ret, h.ret, in.co2, TRUE, ms)
         IN  [ sensors      |-> [s EXCEPT !.tempFilter1     = t.f,
                                          !.humidityFilter1 = h.f,
                                          !.lastReading1    = reading],
               i2cFailCount |-> 0,
               reading      |-> reading,
               recovered    |-> FALSE,
               recovery     |-> [pulses |-> 0, released |-> FALSE] ]

\* An acquire call's inputs: in.muxAck (the multiplexer acknowledged the
\* select), in.wireTimeout (getWireTimeoutFlag() after the read), in.error,
\* in.co2, in.temp, in.hum (what readMeasurement() delivered) and
\* in.sdaRelease (see recoverI2CBus).
readSensor1(s, cnt, ms, in) ==
    IF ~selectMuxChannel(MUX_CHANNEL_FRUITING, in.muxAck)
    THEN busFailure(s, cnt, s.lastReading1, in)
    ELSE IF in.wireTimeout
    THEN busFailure(s, cnt, s.lastReading1, in)
    ELSE IF in.error # 0 \/ in.co2 = 0
    THEN fallback(s, cnt, s.lastReading1)
    ELSE IF ~validateReading(in.temp, in.hum, in.co2)
    THEN fallback(s, cnt, s.lastReading1)
    ELSE LET t == add(s.tempFilter1, in.temp)
             h == add(s.humidityFilter1, in.hum)
             reading == SensorReading(t.ret, h.ret, in.co2, TRUE, ms)
         IN  [ sensors      |-> [s EXCEPT !.tempFilter1     = t.f,
                                          !.humidityFilter1 = h.f,
                                          !.lastReading1    = reading],
               i2cFailCount |-> 0,
               reading      |-> reading,
               recovered    |-> FALSE,
               recovery     |-> [pulses |-> 0, released |-> FALSE] ]

readSensor2StaleLast(s, cnt, ms, in) ==
    IF ~selectMuxChannel(MUX_CHANNEL_SPAWNING, in.muxAck)
    THEN busFailure(s, cnt, s.lastReading2, in)
    ELSE IF in.wireTimeout
    THEN busFailure(s, cnt, s.lastReading2, in)
    ELSE IF in.error # 0 \/ in.co2 = 0
    THEN fallback(s, cnt, s.lastReading2)
    ELSE IF ~validateReading(in.temp, in.hum, in.co2)
    THEN fallback(s, cnt, s.lastReading2)
    ELSE LET t == add(s.tempFilter2, in.temp)
             h == add(s.humidityFilter2, in.hum)
             reading == SensorReading(t.ret, h.ret, in.co2, TRUE, ms)
         IN  [ sensors      |-> [s EXCEPT !.tempFilter2     = t.f,
                                          !.humidityFilter2 = h.f],
               i2cFailCount |-> 0,
               reading      |-> reading,
               recovered    |-> FALSE,
               recovery     |-> [pulses |-> 0, released |-> FALSE] ]

readSensor2RestartsCount(s, cnt, ms, in) ==
    IF ~selectMuxChannel(MUX_CHANNEL_SPAWNING, in.muxAck)
    THEN busFailure(s, 0, s.lastReading2, in)
    ELSE IF in.wireTimeout
    THEN busFailure(s, 0, s.lastReading2, in)
    ELSE IF in.error # 0 \/ in.co2 = 0
    THEN fallback(s, cnt, s.lastReading2)
    ELSE IF ~validateReading(in.temp, in.hum, in.co2)
    THEN fallback(s, cnt, s.lastReading2)
    ELSE LET t == add(s.tempFilter2, in.temp)
             h == add(s.humidityFilter2, in.hum)
             reading == SensorReading(t.ret, h.ret, in.co2, TRUE, ms)
         IN  [ sensors      |-> [s EXCEPT !.tempFilter2     = t.f,
                                          !.humidityFilter2 = h.f,
                                          !.lastReading2    = reading],
               i2cFailCount |-> 0,
               reading      |-> reading,
               recovered    |-> FALSE,
               recovery     |-> [pulses |-> 0, released |-> FALSE] ]

readSensor2(s, cnt, ms, in) ==
    IF ~selectMuxChannel(MUX_CHANNEL_SPAWNING, in.muxAck)
    THEN busFailure(s, cnt, s.lastReading2, in)
    ELSE IF in.wireTimeout
    THEN busFailure(s, cnt, s.lastReading2, in)
    ELSE IF in.error # 0 \/ in.co2 = 0
    THEN fallback(s, cnt, s.lastReading2)
    ELSE IF ~validateReading(in.temp, in.hum, in.co2)
    THEN fallback(s, cnt, s.lastReading2)
    ELSE LET t == add(s.tempFilter2, in.temp)
             h == add(s.humidityFilter2, in.hum)
             reading == SensorReading(t.ret, h.ret, in.co2, TRUE, ms)
         IN  [ sensors      |-> [s EXCEPT !.tempFilter2     = t.f,
                                          !.humidityFilter2 = h.f,
                                          !.lastReading2    = reading],
               i2cFailCount |-> 0,
               reading      |-> reading,
               recovered    |-> FALSE,
               recovery     |-> [pulses |-> 0, released |-> FALSE] ]

readSensorCrossed(ch, s, cnt, ms, in) ==
    IF ch = 1 THEN readSensor2(s, cnt, ms, in) ELSE readSensor1(s, cnt, ms, in)

readSensor(ch, s, cnt, ms, in) ==
    IF ch = 1 THEN readSensor1(s, cnt, ms, in) ELSE readSensor2(s, cnt, ms, in)

\* begin(): false when the multiplexer is not detected, when a channel
\* select fails, or when a sensor fails to start periodic measurement
sensorsBeginFirstOnly(in) ==
    IF in.muxDetected
    THEN IF ~selectMuxChannel(MUX_CHANNEL_FRUITING, in.muxAck1) THEN FALSE
         ELSE IF ~selectMuxChannel(MUX_CHANNEL_SPAWNING, in.muxAck2) THEN FALSE
         ELSE IF in.error1 # 0 THEN FALSE
         ELSE TRUE
    ELSE FALSE

sensorsBegin(in) ==
    IF in.muxDetected
    THEN IF ~selectMuxChannel(MUX_CHANNEL_FRUITING, in.muxAck1) THEN FALSE
         ELSE IF ~selectMuxChannel(MUX_CHANNEL_SPAWNING, in.muxAck2) THEN FALSE
         ELSE IF in.error1 # 0 \/ in.error2 # 0 THEN FALSE
         ELSE TRUE
    ELSE FALSE

(***************************************************************************)
(* ActuatorManager (actuators.cpp): the states[8] array.                   *)
(***************************************************************************)
ActuatorManager == [i \in 0 .. 7 |-> FALSE]

\* getPin() knows six actuators and returns -1 for any other type
getPin(type) == IF type \in 0 .. 5 THEN type + 2 ELSE 0 - 1

set(st, type, on) ==
    IF getPin(type) = 0 - 1 THEN st ELSE [st EXCEPT ![type] = on]

shutdownAll(st) == [i \in 0 .. 7 |-> FALSE]

(***************************************************************************)
(* main.cpp                                                                *)
(***************************************************************************)
SerialBufferSize == 128

\* handleSerialCommands, the body of its loop for one received byte (after
\* watchdog.heartbeat()).  byte is "eol" for '\n' and '\r' and "char" for
\* any other byte; parse is what deserializeJson() and the field lookups
\* make of the buffered line: [kind |-> "error"],
\* [kind |-> "keepalive", type |-> t, on |-> b] (the document has the key
\* "keepalive"; t and b are what its actuator and state fields would
\* select), [kind |-> "missing"] (no actuator or no state field) or
\* [kind |-> "command", type |-> t, on |-> b]; t = -1 for an actuator name
\* that stringToActuatorType() does not know.
handleByteCommandFirst(pos, st, byte, parse) ==
    IF byte = "eol"
    THEN IF pos > 0
         THEN [ bufferPos |-> 0,
                states    |-> IF /\ parse.kind \in {"command", "keepalive"}
                                 /\ parse.type # 0 - 1
                              THEN set(st, parse.type, parse.on)
                              ELSE st ]
         ELSE [ bufferPos |-> pos, states |-> st ]
    ELSE IF pos < SerialBufferSize - 1
         THEN [ bufferPos |-> pos + 1, states |-> st ]
         ELSE [ bufferPos |-> pos, states |-> st ]

handleByteUnbounded(pos, st, byte, parse) ==
    IF byte = "eol"
    THEN IF pos > 0
         THEN [ bufferPos |-> 0,
                states    |-> IF parse.kind = "command" /\ parse.type # 0 - 1
                              THEN set(st, parse.type, parse.on)
                              ELSE st ]
         ELSE [ bufferPos |-> pos, states |-> st ]
    ELSE [ bufferPos |-> pos + 1, states |-> st ]

handleByte(pos, st, byte, parse) ==
    IF byte = "eol"
    THEN IF pos > 0
         THEN [ bufferPos |-> 0,
                states    |-> IF parse.kind = "command" /\ parse.type # 0 - 1
                              THEN set(st, parse.type, parse.on)
                              ELSE st ]
         ELSE [ bufferPos |-> pos, states |-> st ]
    ELSE IF pos < SerialBufferSize - 1
         THEN [ bufferPos |-> pos + 1, states |-> st ]
         ELSE [ bufferPos |-> pos, states |-> st ]

\* the index of serialBuffer that the body of the loop writes for one
\* received byte: the terminator of a non-empty line and a stored byte go
\* to serialBuffer[bufferPos]; nothing is written (-1) for a line end on
\* an empty buffer and for a byte that finds the buffer full
storedAt(pos, byte) ==
    IF byte = "eol"
    THEN IF pos > 0 THEN pos ELSE 0 - 1
    ELSE IF pos < SerialBufferSize - 1 THEN pos ELSE 0 - 1

\* TASK 3 of loop() once it is due: poll the watchdog and shut every
\* actuator down when the poll reports a timeout
watchdogTaskWhileUnsafe(w, st, ms) ==
    LET r == checkTimeout(w, ms)
    IN  [ r        |-> r,
          shutdown |-> ~isSafe(r.w),
          states   |-> IF ~isSafe(r.w) THEN shutdownAll(st) ELSE st ]

watchdogTaskReportsOnly(w, st, ms) ==
    LET r == checkTimeout(w, ms)
    IN  [ r        |-> r,
          shutdown |-> r.ret,
          states   |-> st ]

watchdogTask(w, st, ms) ==
    LET r == checkTimeout(w, ms)
    IN  [ r        |-> r,
          shutdown |-> r.ret,
          states   |-> IF r.ret THEN shutdownAll(st) ELSE st ]

(***************************************************************************)
(* State.                                                                  *)
(***************************************************************************)
VARIABLES
    millis,         \* value of the 32-bit millisecond clock
    ticks,          \* number of clock advances so far (bounded by MaxTicks)
    watchdog,       \* the SafetyWatchdog object
    op,             \* the kind of the last step
    lastCall,       \* the last watchdog method called
    ret,            \* return value of the last watchdog call
    began,          \* begin() has been called on the watchdog
    episodeFires,   \* checkTimeout() calls that returned true since
                    \* lastHeartbeat was last written
    hbSinceTrigger, \* a heartbeat() was received since triggered was set
    scenA,          \* number of calls of scenario A performed so far, in
                    \* order and at the scenario's times (-1: off scenario)
    sensors,        \* the SensorManager object
    i2cFailCount,   \* static uint8_t i2cFailCount of sensors.cpp
    last,           \* the last acquire call: channel, inputs, kind of
                    \* outcome, returned Reading, recovery performed
    selRun,         \* length of the current run of consecutive acquire
                    \* calls whose channel select failed (restarts after 3)
    runBase,        \* value of i2cFailCount when that run started
    goods,          \* number of successful reads so far (bounded)
    pc,             \* position of the firmware: setup, halted, or the
                    \* task of loop() that runs next
    currentMillis,  \* loop()'s local currentMillis
    lastSensorRead, \* main.cpp timing globals
    lastWatchdogCheck,
    states,         \* ActuatorManager::states
    bufferPos,      \* handleSerialCommands' static bufferPos
    fruiting,       \* loop()'s local fruiting (Reading of channel 1)
    telemetry,      \* validity markers of the last JSON message sent
    bytes,          \* number of bytes received from the host (bounded)
    lastByteAt,     \* clock value when the last byte was received (or
                    \* the watchdog was started)
    pollShutdowns,  \* shutdownAll() calls made by the watchdog poll since
                    \* the last byte was received
    invoked,        \* the last call observed of a function or method whose
                    \* result is not kept in the program's state: its name,
                    \* its arguments and what it returned
    filter,         \* a MovingAverageFilter object driven on its own
    inserted,       \* the values passed to filter.add() since the filter
                    \* was constructed or last reset, oldest first
    rec,            \* recoverI2CBus(): its position, the bus driver, the
                    \* two pins and what it has done so far
    quiet,          \* the time that has really passed since lastHeartbeat
                    \* was last written, counted without wrapping: whole
                    \* laps of the 32-bit clock and the rest in ms
    fires,          \* number of checkTimeout() calls that have returned
                    \* true, as counted by the caller of the watchdog
    pipe            \* what a caller of the acquisition pipeline has seen:
                    \* whether the permanent bus fault has set in, the
                    \* acquire calls since the last successful read or
                    \* recovery, the calls that led to the recovery just
                    \* made, the channels that have been read
                    \* successfully, those that have returned a valid
                    \* Reading, and the recoveries made under the fault

clockVars == <<millis, ticks>>

wdVars == <<watchdog, lastCall, ret, began, episodeFires, hbSinceTrigger,
            scenA>>

acqVars == <<sensors, i2cFailCount, last, selRun, runBase, goods>>

mainVars == <<pc, currentMillis, lastSensorRead, lastWatchdogCheck, states,
              bufferPos, fruiting, telemetry, bytes, lastByteAt,
              pollShutdowns>>

unitVars == <<filter, inserted, rec, pipe, fires, quiet>>

vars == <<millis, ticks, op, wdVars, acqVars, mainVars, invoked, unitVars>>

(***************************************************************************)
(* Scenario A (a watchdog with timeout 1000, begin() at t=0,               *)
(* checkTimeout() at 500, 1500, 2000, heartbeat() at 2100): the calls in   *)
(* order with the clock value each is made at.                             *)
(***************************************************************************)
ScenarioA ==
    << <<"begin", 0>>, <<"checkTimeout", 500>>, <<"checkTimeout", 1500>>,
       <<"checkTimeout", 2000>>, <<"heartbeat", 2100>> >>

ScenAStep(call) ==
    IF scenA >= 0 /\ scenA < Len(ScenarioA)
       /\ ScenarioA[scenA + 1] = <<call, millis[2]>> /\ millis[1] = 0
       /\ watchdog.timeout = U32(1000)
    THEN scenA + 1
    ELSE -1

(***************************************************************************)
(* The watchdog driven through its public interface by an arbitrary        *)
(* caller, with the clock advancing between calls.                         *)
(***************************************************************************)
NoRecovery == [pulses |-> 0, released |-> FALSE]

NoInput ==
    [ muxAck |-> TRUE, wireTimeout |-> FALSE, error |-> 0, co2 |-> 0,
      temp |-> 0, hum |-> 0, sdaRelease |-> 0 ]

InitSensors ==
    /\ sensors = SensorManager
    /\ i2cFailCount = 0
    /\ last = [ ch |-> 0, kind |-> "none", in |-> NoInput,
                reading |-> SensorReading(0, 0, 0, FALSE, U32(0)),
                recovered |-> FALSE, recovery |-> NoRecovery ]
    /\ selRun = 0
    /\ runBase = 0
    /\ goods = 0

InitMainVars ==
    /\ pc = "setup"
    /\ currentMillis = U32(0)
    /\ lastSensorRead = U32(0)
    /\ lastWatchdogCheck = U32(0)
    /\ states = ActuatorManager
    /\ bufferPos = 0
    /\ fruiting = SensorReading(0, 0, 0, FALSE, U32(0))
    /\ telemetry = <<>>
    /\ bytes = 0
    /\ lastByteAt = U32(0)
    /\ pollShutdowns = 0

\* lastHeartbeat has not been written since the watchdog was constructed
NeverWritten == [known |-> FALSE, laps |-> 0, ms |-> U32(0)]

\* lastHeartbeat has just been written
JustWritten == [known |-> TRUE, laps |-> 0, ms |-> U32(0)]

\* d more milliseconds pass (d < 2^32)
Pass(q, d) ==
    IF ~q.known
    THEN q
    ELSE LET sum == Add32(q.ms, d)
         IN  [q EXCEPT !.ms   = sum,
                       !.laps = IF Gt32(q.ms, sum) THEN q.laps + 1
                                ELSE q.laps]

\* nothing has been acquired yet
PipeIdle ==
    [ fault |-> FALSE, run |-> <<>>, led |-> <<>>, read |-> {}, valid |-> {},
      recoveries |-> 0 ]

InitUnit ==
    /\ invoked = [fn |-> "none"]
    /\ filter = MovingAverageFilter(FILTER_SIZE)
    /\ inserted = <<>>
    /\ rec = I2CBus
    /\ pipe = PipeIdle
    /\ fires = 0
    /\ quiet = NeverWritten

InitWatchdog(timeoutMs) ==
    /\ watchdog = SafetyWatchdog(timeoutMs)
    /\ lastCall = "construct"
    /\ ret = FALSE
    /\ began = FALSE
    /\ episodeFires = 0
    /\ hbSinceTrigger = FALSE
    /\ scenA = 0

InitWD ==
    /\ millis \in StartClocks
    /\ ticks = 0
    /\ op = "construct"
    /\ InitWatchdog(U32(ScenarioTimeout))
    /\ InitSensors
    /\ InitMainVars
    /\ InitUnit

Tick ==
    /\ ticks < MaxTicks
    /\ \E d \in TickSteps : millis' = Add32(millis, U32(d))
    /\ ticks' = ticks + 1
    /\ op' = "tick"
    /\ UNCHANGED <<invoked, unitVars, wdVars, acqVars, mainVars>>

\* the effect of one watchdog call on the watchdog and on the variables
\* that observe it
WdBegin ==
    /\ watchdog' = begin(watchdog, millis)
    /\ lastCall' = "begin"
    /\ ret' = FALSE
    /\ began' = TRUE
    /\ episodeFires' = 0
    /\ hbSinceTrigger' = hbSinceTrigger
    /\ scenA' = ScenAStep("begin")

WdHeartbeat ==
    LET r == heartbeat(watchdog, millis)
    IN  /\ watchdog' = r.w
        /\ lastCall' = "heartbeat"
        /\ ret' = r.ret
        /\ episodeFires' = 0
        /\ hbSinceTrigger' = TRUE
        /\ scenA' = ScenAStep("heartbeat")
        /\ UNCHANGED began

\* r is the result of checkTimeout(watchdog, millis)
WdCheckTimeout(r) ==
    /\ watchdog' = r.w
    /\ lastCall' = "checkTimeout"
    /\ ret' = r.ret
    /\ episodeFires' = IF r.ret THEN episodeFires + 1 ELSE episodeFires
    /\ hbSinceTrigger' = IF r.w.hasTriggered /\ ~watchdog.hasTriggered
                         THEN FALSE ELSE hbSinceTrigger
    /\ scenA' = ScenAStep("checkTimeout")
    /\ UNCHANGED began

WdReset ==
    /\ watchdog' = reset(watchdog, millis)
    /\ lastCall' = "reset"
    /\ ret' = FALSE
    /\ episodeFires' = 0
    /\ scenA' = ScenAStep("reset")
    /\ UNCHANGED <<began, hbSinceTrigger>>

CallBegin ==
    /\ WdBegin
    /\ op' = "begin"
    /\ UNCHANGED <<invoked, unitVars, clockVars, acqVars, mainVars>>

CallHeartbeat ==
    /\ WdHeartbeat
    /\ op' = "heartbeat"
    /\ UNCHANGED <<invoked, unitVars, clockVars, acqVars, mainVars>>

CallCheckTimeout ==
    /\ WdCheckTimeout(checkTimeout(watchdog, millis))
    /\ op' = "checkTimeout"
    /\ UNCHANGED <<invoked, unitVars, clockVars, acqVars, mainVars>>

CallReset ==
    /\ WdReset
    /\ op' = "reset"
    /\ UNCHANGED <<invoked, unitVars, clockVars, acqVars, mainVars>>

NextWD ==
    \/ Tick
    \/ CallBegin
    \/ CallHeartbeat
    \/ CallCheckTimeout
    \/ CallReset

SpecWD == InitWD /\ [][NextWD]_vars

(***************************************************************************)
(* The watchdog as the firmware uses it: begin() once, then heartbeat()    *)
(* and checkTimeout() in any order with time passing, reset() never; the   *)
(* caller counts the checkTimeout() calls that return true.                *)
(***************************************************************************)
LinkBegin ==
    /\ ~began
    /\ WdBegin
    /\ op' = "begin"
    /\ UNCHANGED <<invoked, unitVars, clockVars, acqVars, mainVars>>

LinkCheckTimeout ==
    LET r == checkTimeout(watchdog, millis)
    IN  /\ WdCheckTimeout(r)
        /\ fires' = IF r.ret THEN fires + 1 ELSE fires
        /\ op' = "checkTimeout"
        /\ UNCHANGED <<invoked, filter, inserted, rec, pipe, quiet,
                       clockVars, acqVars, mainVars>>

NextLink ==
    \/ Tick
    \/ LinkBegin
    \/ CallHeartbeat
    \/ LinkCheckTimeout

SpecLink == InitWD /\ [][NextLink]_vars

(***************************************************************************)
(* The watchdog on a clock that runs for a long time: between two calls    *)
(* any amount of time below one lap of the 32-bit clock may pass, so the   *)
(* clock wraps between calls and a silence can outlast a whole lap.  The   *)
(* time that has really passed since lastHeartbeat was written is counted  *)
(* beside the clock, from zero and without wrapping.                       *)
(***************************************************************************)
\* amounts of time (ms) that may pass between two calls: short ones and
\* one that is 500 ms short of a lap
LongSteps == {U32(1), U32(500), U32(1000), Sub32(U32(0), U32(500))}

LongTick ==
    /\ ticks < MaxTicks
    /\ \E d \in LongSteps :
         /\ millis' = Add32(millis, d)
         /\ quiet' = Pass(quiet, d)
    /\ ticks' = ticks + 1
    /\ op' = "tick"
    /\ UNCHANGED <<invoked, filter, inserted, rec, pipe, fires, wdVars,
                   acqVars, mainVars>>

LongBegin ==
    /\ WdBegin
    /\ quiet' = JustWritten
    /\ op' = "begin"
    /\ UNCHANGED <<invoked, filter, inserted, rec, pipe, fires, clockVars,
                   acqVars, mainVars>>

LongHeartbeat ==
    /\ WdHeartbeat
    /\ quiet' = JustWritten
    /\ op' = "heartbeat"
    /\ UNCHANGED <<invoked, filter, inserted, rec, pipe, fires, clockVars,
                   acqVars, mainVars>>

LongReset ==
    /\ WdReset
    /\ quiet' = JustWritten
    /\ op' = "reset"
    /\ UNCHANGED <<invoked, filter, inserted, rec, pipe, fires, clockVars,
                   acqVars, mainVars>>

NextLong ==
    \/ LongTick
    \/ LongBegin
    \/ LongHeartbeat
    \/ CallCheckTimeout
    \/ LongReset

SpecLong == InitWD /\ [][NextLong]_vars

\* elapsed time since the last heartbeat as the code computes it
Elapsed == getTimeSinceLastHeartbeat(watchdog, millis)

(***************************************************************************)
(* The acquisition pipeline driven by an arbitrary caller: any channel,    *)
(* any outcome of the bus transactions, time passing between calls.        *)
(***************************************************************************)
MaxGood == 2

MaxAcqTicks == 1

\* raw values readMeasurement() may deliver (binary32 values, in units)
TempA == 25 * TempUnit

TempB == 45 * (TempUnit \div 2) + 8

TempTooHot == TEMP_MAX + 4

HumA == 85 * HumUnit

HumTooHigh == HUMIDITY_MAX + 16

GoodSample == [NoInput EXCEPT !.co2 = 800, !.temp = TempA, !.hum = HumA]

SdaReleases == {0, 1}

\* one select failure per behaviour of the data line during recovery, a
\* bus timeout, a device error code, a zero concentration, one sample out
\* of range in each field, and two good samples
AcqInputs ==
    { [NoInput EXCEPT !.muxAck = FALSE, !.sdaRelease = r] :
        r \in SdaReleases }
    \cup
    { [GoodSample EXCEPT !.wireTimeout = TRUE],
      [GoodSample EXCEPT !.error = 1],
      [GoodSample EXCEPT !.co2 = 0],
      [GoodSample EXCEPT !.temp = TempTooHot],
      [GoodSample EXCEPT !.hum = HumTooHigh],
      [GoodSample EXCEPT !.co2 = 399],
      GoodSample,
      [GoodSample EXCEPT !.temp = TempB] }

\* the outcome of an acquire call in the vocabulary of the design, from
\* what the bus and the device delivered
InRange(in) ==
    /\ in.temp >= (0 - 10) * TempUnit /\ in.temp <= 60 * TempUnit
    /\ in.hum >= 0 /\ in.hum <= 100 * HumUnit
    /\ in.co2 >= 400 /\ in.co2 <= 5000

Kind(in) ==
    IF ~in.muxAck THEN "select_fail"
    ELSE IF in.wireTimeout THEN "timeout"
    ELSE IF in.error # 0 THEN "device_error"
    ELSE IF in.co2 = 0 THEN "zero_co2"
    ELSE IF ~InRange(in) THEN "out_of_range"
    ELSE "ok"

InitAcq ==
    /\ millis = U32(0)
    /\ ticks = 0
    /\ op = "construct"
    /\ InitWatchdog(U32(WATCHDOG_TIMEOUT))
    /\ InitSensors
    /\ InitMainVars
    /\ InitUnit

AcqTick ==
    /\ ticks < MaxAcqTicks
    /\ millis' = Add32(millis, U32(SENSOR_READ_INTERVAL))
    /\ ticks' = ticks + 1
    /\ op' = "tick"
    /\ UNCHANGED <<invoked, unitVars, wdVars, acqVars, mainVars>>

Acquire(ch, in) ==
    LET r == readSensor(ch, sensors, i2cFailCount, millis, in)
    IN  /\ Kind(in) = "ok" => goods < MaxGood
        /\ sensors' = r.sensors
        /\ i2cFailCount' = r.i2cFailCount
        /\ last' = [ ch |-> ch, kind |-> Kind(in), in |-> in,
                     reading |-> r.reading, recovered |-> r.recovered,
                     recovery |-> r.recovery ]
        /\ selRun' = IF Kind(in) = "select_fail"
                     THEN (IF selRun >= 3 THEN 1 ELSE selRun + 1)
                     ELSE 0
        /\ runBase' = IF Kind(in) = "select_fail" /\ selRun \in {0, 3}
                      THEN i2cFailCount ELSE runBase
        /\ goods' = IF Kind(in) = "ok" THEN goods + 1 ELSE goods

CallReadSensor1 ==
    /\ \E in \in AcqInputs : Acquire(1, in)
    /\ op' = "readSensor1"
    /\ UNCHANGED <<invoked, unitVars, clockVars, wdVars, mainVars>>

CallReadSensor2 ==
    /\ \E in \in AcqInputs : Acquire(2, in)
    /\ op' = "readSensor2"
    /\ UNCHANGED <<invoked, unitVars, clockVars, wdVars, mainVars>>

NextAcq ==
    \/ AcqTick
    \/ CallReadSensor1
    \/ CallReadSensor2

SpecAcq == InitAcq /\ [][NextAcq]_vars

\* a channel's last-known-good Reading and its two filters
LastReading(s, ch) == IF ch = 1 THEN s.lastReading1 ELSE s.lastReading2

TempFilter(s, ch) == IF ch = 1 THEN s.tempFilter1 ELSE s.tempFilter2

HumidityFilter(s, ch) ==
    IF ch = 1 THEN s.humidityFilter1 ELSE s.humidityFilter2

IsAcquire(o) == o \in {"readSensor1", "readSensor2"}

(***************************************************************************)
(* The acquisition pipeline with its caller keeping a record (pipe) of     *)
(* what it has seen: pipe.run holds <<channel, outcome>> of every acquire  *)
(* call since the last successful read or recovery, oldest first;          *)
(* pipe.led those calls up to and including the last call when that call   *)
(* invoked recovery;                                                       *)
(* pipe.read the channels that have been read successfully; pipe.valid the *)
(* channels that have returned a Reading with valid = true.                *)
(***************************************************************************)
MaxQuiet == 1

MaxFaultRecoveries == 2

\* the outcomes that are failures of the bus itself
BusFailureKinds == {"select_fail", "timeout"}

\* the outcomes that are neither a bus failure nor a successful read
QuietKinds == {"device_error", "zero_co2", "out_of_range"}

BusFailures(run) ==
    Cardinality({j \in 1 .. Len(run) : run[j][2] \in BusFailureKinds})

Quiets(run) == Len(run) - BusFailures(run)

\* the record after the acquire call Acquire(ch, in)
Observe(ch, in) ==
    pipe' = [ pipe EXCEPT
                !.run   = IF Kind(in) = "ok" \/ last'.recovered
                          THEN <<>>
                          ELSE Append(pipe.run, <<ch, Kind(in)>>),
                !.led   = IF last'.recovered
                          THEN Append(pipe.run, <<ch, Kind(in)>>)
                          ELSE <<>>,
                !.read  = IF Kind(in) = "ok" THEN @ \cup {ch} ELSE @,
                !.valid = IF last'.reading.isValid THEN @ \cup {ch} ELSE @,
                !.recoveries =
                          IF pipe.fault /\ last'.recovered
                             /\ @ < MaxFaultRecoveries
                          THEN @ + 1 ELSE @ ]

\* a select failure, a bus timeout, a device error code, a zero
\* concentration, a sample out of range, a good sample
PipeInputs ==
    { [NoInput EXCEPT !.muxAck = FALSE],
      [GoodSample EXCEPT !.wireTimeout = TRUE],
      [GoodSample EXCEPT !.error = 1],
      [GoodSample EXCEPT !.co2 = 0],
      [GoodSample EXCEPT !.temp = TempTooHot],
      GoodSample }

PipeRead(ch) ==
    /\ \E in \in PipeInputs :
         /\ Kind(in) \in QuietKinds => Quiets(pipe.run) < MaxQuiet
         /\ Acquire(ch, in)
         /\ Observe(ch, in)
    /\ op' = IF ch = 1 THEN "readSensor1" ELSE "readSensor2"
    /\ UNCHANGED <<invoked, filter, inserted, rec, fires, quiet, clockVars,
                   wdVars, mainVars>>

PipeReadSensor1 == PipeRead(1)

PipeReadSensor2 == PipeRead(2)

NextPipe ==
    \/ PipeReadSensor1
    \/ PipeReadSensor2

SpecPipe == InitAcq /\ [][NextPipe]_vars

(***************************************************************************)
(* The pipeline under a bus fault that never resolves: acquire calls with  *)
(* any outcome of the bus, then the fault sets in and from then on every   *)
(* channel select fails.  loop() never ends and its acquisition task is    *)
(* due every SENSOR_READ_INTERVAL ms, so acquire calls keep being made.    *)
(***************************************************************************)
BeforeFaultInputs ==
    { [NoInput EXCEPT !.muxAck = FALSE],
      [GoodSample EXCEPT !.wireTimeout = TRUE],
      GoodSample }

FaultInputs ==
    { [NoInput EXCEPT !.muxAck = FALSE, !.sdaRelease = r] :
        r \in SdaReleases }

HealthyRead(ch) ==
    /\ ~pipe.fault
    /\ \E in \in BeforeFaultInputs :
         /\ Acquire(ch, in)
         /\ Observe(ch, in)
    /\ op' = IF ch = 1 THEN "readSensor1" ELSE "readSensor2"
    /\ UNCHANGED <<invoked, filter, inserted, rec, fires, quiet, clockVars,
                   wdVars, mainVars>>

HealthyReadSensor1 == HealthyRead(1)

HealthyReadSensor2 == HealthyRead(2)

FaultSetsIn ==
    /\ ~pipe.fault
    /\ pipe' = [pipe EXCEPT !.fault = TRUE]
    /\ op' = "fault"
    /\ UNCHANGED <<invoked, filter, inserted, rec, fires, quiet, clockVars,
                   wdVars,                    acqVars, mainVars>>

FaultyRead(ch) ==
    /\ pipe.fault
    /\ \E in \in FaultInputs :
         /\ Acquire(ch, in)
         /\ Observe(ch, in)
    /\ op' = IF ch = 1 THEN "readSensor1" ELSE "readSensor2"
    /\ UNCHANGED <<invoked, filter, inserted, rec, fires, quiet, clockVars,
                   wdVars, mainVars>>

FaultyReadSensor1 == FaultyRead(1)

FaultyReadSensor2 == FaultyRead(2)

NextFault ==
    \/ HealthyReadSensor1
    \/ HealthyReadSensor2
    \/ FaultSetsIn
    \/ FaultyReadSensor1
    \/ FaultyReadSensor2

SpecFault ==
    /\ InitAcq
    /\ [][NextFault]_vars
    /\ WF_vars(FaultyReadSensor1 \/ FaultyReadSensor2)

(***************************************************************************)
(* validateReading and selectMuxChannel called on their own, with          *)
(* arguments on both sides of every limit.  Temperatures and humidities    *)
(* are binary32 values: next to a limit, the nearest binary32 value on     *)
(* either side of it (one unit around zero), and the binary32 values       *)
(* nearest to -10.01, 60.01 and 100.01.                                    *)
(***************************************************************************)
TempSamples ==
    { RoundF(TEMP_MIN - TempUnit \div 100), TEMP_MIN - 4, TEMP_MIN,
      TEMP_MIN + 4, TempA, TEMP_MAX - 16, TEMP_MAX, TEMP_MAX + 16,
      RoundF(TEMP_MAX + TempUnit \div 100) }

HumSamples ==
    { 0 - 1, HUMIDITY_MIN, HUMIDITY_MIN + 1, HumA, HUMIDITY_MAX - 16,
      HUMIDITY_MAX, HUMIDITY_MAX + 16,
      RoundF(HUMIDITY_MAX + HumUnit \div 100) }

Co2Samples == {0, 399, 400, 401, 800, 4999, 5000, 5001, 65535}

\* uint8_t channel arguments on both sides of the limit
MuxChannels == 0 .. 15

CallValidateReading ==
    /\ \E t \in TempSamples, h \in HumSamples, c \in Co2Samples :
         invoked' = [ fn |-> "validateReading", temp |-> t, hum |-> h,
                      co2 |-> c, ret |-> validateReading(t, h, c) ]
    /\ op' = "validateReading"
    /\ UNCHANGED <<unitVars, clockVars, wdVars, acqVars, mainVars>>

CallSelectMuxChannel ==
    /\ \E ch \in MuxChannels, ack \in BOOLEAN :
         invoked' = [ fn |-> "selectMuxChannel", channel |-> ch,
                      muxAck |-> ack, ret |-> selectMuxChannel(ch, ack),
                      bus |-> selectMuxBus(ch, ack) ]
    /\ op' = "selectMuxChannel"
    /\ UNCHANGED <<unitVars, clockVars, wdVars, acqVars, mainVars>>

NextPure ==
    \/ CallValidateReading
    \/ CallSelectMuxChannel

SpecPure == InitAcq /\ [][NextPure]_vars

(***************************************************************************)
(* A MovingAverageFilter on its own: constructed with some capacity, then  *)
(* add(), getAverage() and reset() in any order.                           *)
(***************************************************************************)
MaxAdds == 7

FilterSizes == {2, FILTER_SIZE}

\* values passed to add(): binary32 values within the validated range
FilterValues == {TEMP_MIN, TempA, TempB}

InitFilter ==
    /\ millis = U32(0)
    /\ ticks = 0
    /\ op = "construct"
    /\ InitWatchdog(U32(WATCHDOG_TIMEOUT))
    /\ InitSensors
    /\ InitMainVars
    /\ invoked = [fn |-> "construct", ret |-> 0]
    /\ filter \in {MovingAverageFilter(n) : n \in FilterSizes}
    /\ inserted = <<>>
    /\ rec = I2CBus
    /\ pipe = PipeIdle
    /\ fires = 0
    /\ quiet = NeverWritten

FilterAdd ==
    /\ Len(inserted) < MaxAdds
    /\ \E v \in FilterValues :
         LET r == add(filter, v)
         IN  /\ filter' = r.f
             /\ invoked' = [fn |-> "add", ret |-> r.ret]
             /\ inserted' = Append(inserted, v)
    /\ op' = "add"
    /\ UNCHANGED <<rec, pipe, fires, quiet, clockVars, wdVars, acqVars,
                   mainVars>>

FilterGetAverage ==
    /\ invoked' = [fn |-> "getAverage", ret |-> getAverage(filter)]
    /\ op' = "getAverage"
    /\ UNCHANGED <<unitVars, clockVars, wdVars, acqVars, mainVars>>

FilterReset ==
    /\ filter' = filterReset(filter)
    /\ invoked' = [fn |-> "reset", ret |-> 0]
    /\ inserted' = <<>>
    /\ op' = "reset"
    /\ UNCHANGED <<rec, pipe, fires, quiet, clockVars, wdVars, acqVars,
                   mainVars>>

NextFilter ==
    \/ FilterAdd
    \/ FilterGetAverage
    \/ FilterReset

SpecFilter == InitFilter /\ [][NextFilter]_vars

\* the values a filter of capacity n that was given the values of seq
\* should be averaging: all of them, or the last n
Window(seq, n) ==
    IF Len(seq) <= n THEN seq ELSE SubSeq(seq, Len(seq) - n + 1, Len(seq))

\* the sum of a sequence as a real number, and as binary32 additions in
\* the order of the sequence
RECURSIVE ExactSum(_)
ExactSum(seq) ==
    IF seq = <<>> THEN 0 ELSE seq[1] + ExactSum(Tail(seq))

RECURSIVE FloatSumFrom(_, _)
FloatSumFrom(acc, seq) ==
    IF seq = <<>> THEN acc ELSE FloatSumFrom(FAdd(acc, seq[1]), Tail(seq))

FloatSum(seq) == FloatSumFrom(0, seq)

\* the occupied slots of a filter's ring buffer
OccupiedSlots(f) == {i \in 0 .. f.size - 1 : i < f.count}

RECURSIVE SlotSum(_, _)
SlotSum(f, slots) ==
    IF slots = {} THEN 0
    ELSE LET i == CHOOSE j \in slots : TRUE
         IN  f.buffer[i] + SlotSum(f, slots \ {i})

\* one unit in the last place of the largest running sum that validated
\* samples can produce: a bound on the rounding error of one add()
SumUlp == Ulp(FILTER_SIZE * TEMP_MAX)

(***************************************************************************)
(* recoverI2CBus() called by an acquire that reached the failure           *)
(* threshold, executed statement by statement, and the bus transactions    *)
(* of the acquires before and after it.  The firmware has one thread of    *)
(* control: no acquire starts while a recovery is in progress.             *)
(***************************************************************************)
\* behaviours of the data line: released after pulse 1..10, or never (0)
SdaBehaviours == 0 .. 10

RecoverCall ==
    /\ rec.pc = "idle"
    /\ \E k \in SdaBehaviours : rec' = recoverEnter(rec, k)
    /\ op' = "recoverI2CBus"
    /\ UNCHANGED <<invoked, filter, inserted, pipe, fires, quiet, clockVars,
                   wdVars, acqVars, mainVars>>

RecoverStep ==
    /\ rec.pc # "idle"
    /\ rec' = recoverStep(rec)
    /\ op' = "recoverStep"
    /\ UNCHANGED <<invoked, filter, inserted, pipe, fires, quiet, clockVars,
                   wdVars, acqVars, mainVars>>

\* a transaction on the bus made by selectMuxChannel() or readMeasurement()
BusTransaction ==
    /\ rec.pc = "idle"
    /\ invoked' = [fn |-> "transaction", wire |-> rec.wire]
    /\ op' = "transaction"
    /\ UNCHANGED <<unitVars, clockVars, wdVars, acqVars, mainVars>>

NextRecover ==
    \/ RecoverCall
    \/ RecoverStep
    \/ BusTransaction

SpecRecover == InitAcq /\ [][NextRecover]_vars

\* recoverI2CBus() contains no blocking call: once entered, its next
\* statement is eventually executed
SpecRecoverFair == SpecRecover /\ WF_vars(RecoverStep)

\* the number of clock pulses the design prescribes for a behaviour of the
\* data line, and the bus operations it prescribes, in order
PulsesFor(k) == IF k >= 1 /\ k <= 9 THEN k ELSE 9

RECURSIVE PulseTrace(_, _)
PulseTrace(j, k) ==
    IF j > PulsesFor(k) THEN <<>>
    ELSE <<"pulse", IF j = k THEN "read:HIGH" ELSE "read:LOW">>
         \o PulseTrace(j + 1, k)

RecoveryTrace(k) ==
    <<"Wire.end", "SCL:OUTPUT", "SDA:INPUT_PULLUP">>
    \o PulseTrace(1, k)
    \o <<"SDA:OUTPUT", "SDA:LOW", "SCL:HIGH", "SDA:HIGH", "Wire.begin">>

IsPrefix(a, b) == Len(a) <= Len(b) /\ a = SubSeq(b, 1, Len(a))

\* recoverI2CBus() has run and is past its loop
LoopDone ==
    rec.trace # <<>> /\ rec.pc \in {"stop", "Wire.begin", "return", "idle"}

(***************************************************************************)
(* The firmware: setup(), then loop() forever, one task per step, with     *)
(* the clock advancing and the host sending bytes at any point.            *)
(***************************************************************************)
MaxMainTicks == 2

MaxBytes == 2

\* amounts of time (ms) that may pass between two steps of the firmware
LoopSteps == {1000, WATCHDOG_TIMEOUT}

BeginInputs ==
    [ muxDetected : BOOLEAN, muxAck1 : BOOLEAN, muxAck2 : BOOLEAN,
      error1 : {0, 1}, error2 : {0, 1} ]

ParseResults ==
    { [kind |-> "error"], [kind |-> "missing"] }
    \cup
    { [kind |-> "keepalive", type |-> t, on |-> b] :
        t \in {0 - 1, 0}, b \in BOOLEAN }
    \cup
    { [kind |-> "command", type |-> t, on |-> b] :
        t \in {0 - 1, 0, 7}, b \in BOOLEAN }

\* what the sensors deliver to the main loop
MainAcqInputs ==
    { [NoInput EXCEPT !.muxAck = FALSE],
      GoodSample }

InitMain ==
    /\ millis = U32(0)
    /\ ticks = 0
    /\ op = "boot"
    /\ InitWatchdog(U32(WATCHDOG_TIMEOUT))
    /\ InitSensors
    /\ InitMainVars
    /\ InitUnit

MainTick ==
    /\ ticks < MaxMainTicks
    /\ \E d \in LoopSteps : millis' = Add32(millis, U32(d))
    /\ ticks' = ticks + 1
    /\ op' = "tick"
    /\ UNCHANGED <<invoked, unitVars, wdVars, acqVars, mainVars>>

\* setup() with sensors.begin() succeeding
SetupOk ==
    /\ pc = "setup"
    /\ \E in \in BeginInputs :
         /\ sensorsBegin(in)
         /\ invoked' = [fn |-> "begin", in |-> in, ret |-> TRUE]
    /\ states' = shutdownAll(states)
    /\ WdBegin
    /\ lastByteAt' = millis
    /\ pc' = "loop"
    /\ op' = "setup"
    /\ UNCHANGED <<unitVars,
                   clockVars, acqVars, currentMillis, lastSensorRead,
                   lastWatchdogCheck, bufferPos, fruiting, telemetry, bytes,
                   pollShutdowns>>

\* setup() with sensors.begin() failing: the error loop is never left
SetupFails ==
    /\ pc = "setup"
    /\ \E in \in BeginInputs :
         /\ ~sensorsBegin(in)
         /\ invoked' = [fn |-> "begin", in |-> in, ret |-> FALSE]
    /\ states' = shutdownAll(states)
    /\ pc' = "halted"
    /\ op' = "setup"
    /\ UNCHANGED <<unitVars,
                   clockVars, wdVars, acqVars, currentMillis, lastSensorRead,
                   lastWatchdogCheck, bufferPos, fruiting, telemetry, bytes,
                   lastByteAt, pollShutdowns>>

LoopStart ==
    /\ pc = "loop"
    /\ currentMillis' = millis
    /\ pc' = "serial"
    /\ op' = "loopStart"
    /\ UNCHANGED <<invoked, unitVars, clockVars, wdVars, acqVars, lastSensorRead,
                   lastWatchdogCheck, states, bufferPos, fruiting, telemetry,
                   bytes, lastByteAt, pollShutdowns>>

\* TASK 1, one iteration of the while loop of handleSerialCommands
SerialByte ==
    /\ pc = "serial"
    /\ bytes < MaxBytes
    /\ \E byte \in {"eol", "char"}, parse \in ParseResults :
         LET h == handleByte(bufferPos, states, byte, parse)
         IN  /\ bufferPos' = h.bufferPos
             /\ states' = h.states
    /\ WdHeartbeat
    /\ bytes' = bytes + 1
    /\ lastByteAt' = millis
    /\ pollShutdowns' = 0
    /\ op' = "byte"
    /\ UNCHANGED <<invoked, unitVars,
                   clockVars, acqVars, pc, currentMillis, lastSensorRead,
                   lastWatchdogCheck, fruiting, telemetry>>

\* TASK 1 ends when no byte is available
SerialDone ==
    /\ pc = "serial"
    /\ pc' = "sensors"
    /\ op' = "serialDone"
    /\ UNCHANGED <<invoked, unitVars,
                   clockVars, wdVars, acqVars, currentMillis, lastSensorRead,
                   lastWatchdogCheck, states, bufferPos, fruiting, telemetry,
                   bytes, lastByteAt, pollShutdowns>>

SensorsDue ==
    Ge32(Sub32(currentMillis, lastSensorRead), U32(SENSOR_READ_INTERVAL))

\* TASK 2 when it is not due
SensorTaskSkip ==
    /\ pc = "sensors"
    /\ ~SensorsDue
    /\ pc' = "watchdog"
    /\ op' = "sensorSkip"
    /\ UNCHANGED <<invoked, unitVars,
                   clockVars, wdVars, acqVars, currentMillis, lastSensorRead,
                   lastWatchdogCheck, states, bufferPos, fruiting, telemetry,
                   bytes, lastByteAt, pollShutdowns>>

\* TASK 2, first half: the fruiting channel is read
SensorTaskRead1 ==
    /\ pc = "sensors"
    /\ SensorsDue
    /\ lastSensorRead' = currentMillis
    /\ \E in \in MainAcqInputs : Acquire(1, in)
    /\ fruiting' = last'.reading
    /\ pc' = "sensors2"
    /\ op' = "readSensor1"
    /\ UNCHANGED <<invoked, unitVars,
                   clockVars, wdVars, currentMillis, lastWatchdogCheck,
                   states, bufferPos, telemetry, bytes, lastByteAt,
                   pollShutdowns>>

\* TASK 2, second half: the spawning channel is read and the message sent
SensorTaskRead2 ==
    /\ pc = "sensors2"
    /\ \E in \in MainAcqInputs : Acquire(2, in)
    /\ telemetry' = << IF fruiting.isValid THEN "fruiting" ELSE "invalid_reading",
                       IF last'.reading.isValid THEN "spawning"
                       ELSE "invalid_reading" >>
    /\ pc' = "watchdog"
    /\ op' = "readSensor2"
    /\ UNCHANGED <<invoked, unitVars,
                   clockVars, wdVars, currentMillis, lastSensorRead,
                   lastWatchdogCheck, states, bufferPos, fruiting, bytes,
                   lastByteAt, pollShutdowns>>

WatchdogDue == Ge32(Sub32(currentMillis, lastWatchdogCheck), U32(1000))

\* TASK 3 when it is not due
WatchdogTaskSkip ==
    /\ pc = "watchdog"
    /\ ~WatchdogDue
    /\ pc' = "loop"
    /\ op' = "pollSkip"
    /\ UNCHANGED <<invoked, unitVars,
                   clockVars, wdVars, acqVars, currentMillis, lastSensorRead,
                   lastWatchdogCheck, states, bufferPos, fruiting, telemetry,
                   bytes, lastByteAt, pollShutdowns>>

\* TASK 3: the watchdog poll
WatchdogTask ==
    /\ pc = "watchdog"
    /\ WatchdogDue
    /\ lastWatchdogCheck' = currentMillis
    /\ LET t == watchdogTask(watchdog, states, millis)
       IN  /\ WdCheckTimeout(t.r)
           /\ states' = t.states
           /\ pollShutdowns' = IF t.shutdown THEN pollShutdowns + 1
                               ELSE pollShutdowns
    /\ pc' = "loop"
    /\ op' = "poll"
    /\ UNCHANGED <<invoked, unitVars,
                   clockVars, acqVars, currentMillis, lastSensorRead,
                   bufferPos, fruiting, telemetry, bytes, lastByteAt>>

NextMain ==
    \/ MainTick
    \/ SetupOk
    \/ SetupFails
    \/ LoopStart
    \/ SerialByte
    \/ SerialDone
    \/ SensorTaskSkip
    \/ SensorTaskRead1
    \/ SensorTaskRead2
    \/ WatchdogTaskSkip
    \/ WatchdogTask

SpecMain == InitMain /\ [][NextMain]_vars

(***************************************************************************)
(* handleSerialCommands() on its own: the firmware has left setup() and    *)
(* entered loop(), and the host sends any number of bytes while time       *)
(* passes.                                                                 *)
(***************************************************************************)
InitSerial ==
    /\ millis = U32(0)
    /\ ticks = 0
    /\ op = "loopStart"
    /\ watchdog = begin(SafetyWatchdog(U32(WATCHDOG_TIMEOUT)), U32(0))
    /\ lastCall = "begin"
    /\ ret = FALSE
    /\ began = TRUE
    /\ episodeFires = 0
    /\ hbSinceTrigger = FALSE
    /\ scenA = 0 - 1
    /\ InitSensors
    /\ pc = "serial"
    /\ currentMillis = U32(0)
    /\ lastSensorRead = U32(0)
    /\ lastWatchdogCheck = U32(0)
    /\ states = shutdownAll(ActuatorManager)
    /\ bufferPos = 0
    /\ fruiting = SensorReading(0, 0, 0, FALSE, U32(0))
    /\ telemetry = <<>>
    /\ bytes = 0
    /\ lastByteAt = U32(0)
    /\ pollShutdowns = 0
    /\ invoked = [fn |-> "none"]
    /\ filter = MovingAverageFilter(FILTER_SIZE)
    /\ inserted = <<>>
    /\ rec = I2CBus
    /\ pipe = PipeIdle
    /\ fires = 0
    /\ quiet = NeverWritten

\* one iteration of the while loop of handleSerialCommands, recording the
\* byte, whether the buffer was full and, when the byte completed a line,
\* what the line parsed to
StreamByte ==
    /\ pc = "serial"
    /\ \E byte \in {"eol", "char"}, parse \in ParseResults :
         LET h == handleByte(bufferPos, states, byte, parse)
         IN  /\ bufferPos' = h.bufferPos
             /\ states' = h.states
             /\ invoked' = [ fn   |-> "byte",
                             byte |-> byte,
                             full |-> (bufferPos = SerialBufferSize - 1),
                             line |-> IF byte = "eol" /\ bufferPos > 0
                                      THEN parse ELSE [kind |-> "none"] ]
    /\ WdHeartbeat
    /\ lastByteAt' = millis
    /\ pollShutdowns' = 0
    /\ op' = "byte"
    /\ UNCHANGED <<unitVars, clockVars, acqVars, pc, currentMillis,
                   lastSensorRead, lastWatchdogCheck, fruiting, telemetry,
                   bytes>>

NextSerial ==
    \/ MainTick
    \/ StreamByte

SpecSerial == InitSerial /\ [][NextSerial]_vars

\* time since the last byte from the host (or since the watchdog started)
Silence == Sub32(millis, lastByteAt)

(***************************************************************************)
(* Properties of the watchdog.                                             *)
(***************************************************************************)

\* C1: for a watchdog started with begin(), a checkTimeout() call returns
\* true exactly when it is the first call of the episode (the time since
\* lastHeartbeat was last written) at which the elapsed time exceeds the
\* timeout; every further call of the episode returns false.
C1_CheckTimeoutOncePerEpisode ==
    [][ (began /\ op' = "checkTimeout")
        => /\ ret' = (episodeFires = 0 /\ Gt32(Elapsed, watchdog.timeout))
           /\ episodeFires' <= 1 ]_vars

\* a second checkTimeout() of the same overrun episode has returned false
C1_Witness ==
    /\ began /\ op = "checkTimeout" /\ ret = FALSE
    /\ episodeFires = 1 /\ watchdog.hasTriggered
    /\ Gt32(Elapsed, watchdog.timeout)

\* C2: heartbeat() while triggered returns true, clears triggered and adds
\* exactly 1 to recoveryCount; heartbeat() while not triggered returns
\* false and changes nothing but lastHeartbeat; a heartbeat() that directly
\* follows another heartbeat() never reports a recovery.
C2_HeartbeatRecovery ==
    [][ op' = "heartbeat"
        => /\ watchdog'.lastHeartbeat = millis
           /\ IF watchdog.hasTriggered
              THEN /\ ret' = TRUE
                   /\ ~watchdog'.hasTriggered
                   /\ watchdog'.recoveryCount = watchdog.recoveryCount + 1
              ELSE /\ ret' = FALSE
                   /\ watchdog' = [watchdog EXCEPT !.lastHeartbeat = millis]
           /\ (lastCall = "heartbeat" => ret' = FALSE) ]_vars

\* a heartbeat() after a timeout has reported the first recovery
C2_Witness ==
    /\ op = "heartbeat" /\ ret = TRUE
    /\ ~watchdog.hasTriggered /\ watchdog.recoveryCount = 1

\* C3: whenever triggered is set, the time elapsed since lastHeartbeat
\* exceeds the timeout and no heartbeat() was received since the
\* checkTimeout() call that set it.
C3_TriggeredOnlyWhileOverrun ==
    watchdog.hasTriggered
        => Gt32(Elapsed, watchdog.timeout) /\ ~hbSinceTrigger

\* triggered is set and time has passed since the call that set it
C3_Witness ==
    /\ watchdog.hasTriggered /\ op = "tick"
    /\ Gt32(Elapsed, Add32(watchdog.timeout, U32(500)))

\* C4 as stated: under begin, heartbeat, checkTimeout and reset the
\* recoveryCount never decreases and grows by exactly 1 on each step that
\* takes triggered from true to false, and on no other step.
C4_Original ==
    [][ /\ watchdog'.recoveryCount >= watchdog.recoveryCount
        /\ (watchdog'.recoveryCount = watchdog.recoveryCount + 1
              <=> (watchdog.hasTriggered /\ ~watchdog'.hasTriggered))
        /\ watchdog'.recoveryCount <= watchdog.recoveryCount + 1 ]_vars

\* C4 amended: recoveryCount never decreases under heartbeat, checkTimeout
\* and reset, and begin() sets it to 0; it grows by exactly 1 on each
\* heartbeat() that takes triggered from true to false and changes on no
\* other step (reset() and begin() clear triggered without counting).
C4_RecoveryCount ==
    [][ /\ (op' = "begin" => watchdog'.recoveryCount = 0)
        /\ (op' # "begin"
              => watchdog'.recoveryCount \in
                   {watchdog.recoveryCount, watchdog.recoveryCount + 1})
        /\ (watchdog'.recoveryCount = watchdog.recoveryCount + 1
              <=> /\ op' = "heartbeat"
                  /\ watchdog.hasTriggered /\ ~watchdog'.hasTriggered) ]_vars

\* two recoveries have been counted
C4_Witness ==
    watchdog.recoveryCount = 2 /\ op = "heartbeat" /\ ~watchdog.hasTriggered

\* C5: scenario A: checkTimeout() at 500 returns false, at 1500 true, at
\* 2000 false; heartbeat() at 2100 returns true and recoveryCount is 1.
C5_ScenarioA ==
    /\ scenA = 2 => ret = FALSE
    /\ scenA = 3 => ret = TRUE
    /\ scenA = 4 => ret = FALSE
    /\ scenA = 5 => ret = TRUE /\ watchdog.recoveryCount = 1

\* scenario A has been run to its end
C5_Witness == scenA = 5 /\ millis = U32(2100)

(***************************************************************************)
(* Properties of the acquisition pipeline.                                 *)
(***************************************************************************)

\* C7: scenario B: in a run of acquire calls whose channel select fails
\* that starts with the failure counter at 0, the 1st and 2nd call do not
\* invoke bus recovery, the 3rd does, and the counter is 0 when the 3rd
\* returns, whether or not recovery saw the data line released.
C7_ScenarioB ==
    /\ (selRun \in {1, 2} /\ runBase = 0) => ~last.recovered
    /\ (selRun = 3 /\ runBase = 0) => last.recovered /\ i2cFailCount = 0

\* the 3rd select failure of such a run ran a recovery that did not
\* release the data line
C7_Witness ==
    /\ selRun = 3 /\ runBase = 0 /\ last.recovered /\ i2cFailCount = 0
    /\ last.recovery = [pulses |-> 9, released |-> FALSE]

\* the counter after one more counted failure
Bump(cnt) == IF cnt + 1 >= I2C_RECOVERY_RETRIES THEN 0 ELSE cnt + 1

\* C8 as stated: a successful read sets the failure counter to 0; a failed
\* channel select, a bus timeout and a device error code each count one
\* failure.
C8_Original ==
    [][ IsAcquire(op')
        => /\ last'.kind = "ok" => i2cFailCount' = 0
           /\ last'.kind \in {"select_fail", "timeout", "device_error"}
                => i2cFailCount' = Bump(i2cFailCount) ]_vars

\* C8 amended: a successful read sets the failure counter to 0; a failed
\* channel select and a bus timeout each count one failure (the counter
\* going back to 0 when the count reaches the recovery threshold); a
\* device error code leaves the counter unchanged.
C8_FailCounter ==
    [][ IsAcquire(op')
        => /\ last'.kind = "ok" => i2cFailCount' = 0
           /\ last'.kind \in {"select_fail", "timeout"}
                => i2cFailCount' = Bump(i2cFailCount)
           /\ last'.kind = "device_error"
                => i2cFailCount' = i2cFailCount ]_vars

\* a device error code has been read with two failures counted
C8_Witness ==
    IsAcquire(op) /\ last.kind = "device_error" /\ i2cFailCount = 2

\* C9: an acquire call that fails (select failure, bus timeout, device
\* error code, zero concentration) or reads an out-of-range value leaves
\* the channel's last-known-good Reading and filters (the whole sensor
\* state) unchanged; it returns that last-known-good Reading, equal in
\* every field, when there is one, and a Reading with valid = false when
\* the channel never had a successful read.
C9_IdempotentFallback ==
    [][ (IsAcquire(op') /\ last'.kind # "ok")
        => LET lkg == LastReading(sensors, last'.ch)
           IN  /\ sensors' = sensors
               /\ lkg.isValid => last'.reading = lkg
               /\ ~lkg.isValid => ~last'.reading.isValid ]_vars

\* an out-of-range read has returned an older valid Reading
C9_Witness ==
    /\ IsAcquire(op) /\ last.kind = "out_of_range"
    /\ last.reading.isValid /\ last.reading.timestamp # millis
    /\ last.reading = LastReading(sensors, last.ch)

\* C10: an acquire call whose sample passes validation sets the failure
\* counter to 0, pushes the raw temperature and humidity into the
\* channel's filters, returns a valid Reading holding the two filter
\* averages and the raw concentration, and stores that Reading as the
\* channel's last-known-good.
C10_SuccessfulRead ==
    [][ (IsAcquire(op') /\ last'.kind = "ok")
        => LET ch == last'.ch
               r  == last'.reading
           IN  /\ i2cFailCount' = 0
               /\ TempFilter(sensors', ch)
                    = add(TempFilter(sensors, ch), last'.in.temp).f
               /\ HumidityFilter(sensors', ch)
                    = add(HumidityFilter(sensors, ch), last'.in.hum).f
               /\ r.isValid
               /\ r.temperature = getAverage(TempFilter(sensors', ch))
               /\ r.humidity = getAverage(HumidityFilter(sensors', ch))
               /\ r.co2 = last'.in.co2
               /\ LastReading(sensors', ch) = r ]_vars

\* a second sample of a channel has been averaged with the first
C10_Witness ==
    /\ IsAcquire(op) /\ last.kind = "ok" /\ i2cFailCount = 0
    /\ TempFilter(sensors, last.ch).count = 2
    /\ last.reading.temperature \notin {TempA, TempB}
    /\ last.reading.co2 = 800
    /\ LastReading(sensors, last.ch) = last.reading

(***************************************************************************)
(* Properties of the main loop.                                            *)
(***************************************************************************)

C11_RangeValidation ==
    invoked.fn = "validateReading"
    => invoked.ret = ( /\ invoked.temp >= (0 - 10) * TempUnit
                       /\ invoked.temp <= 60 * TempUnit
                       /\ invoked.hum >= 0
                       /\ invoked.hum <= 100 * HumUnit
                       /\ invoked.co2 >= 400
                       /\ invoked.co2 <= 5000 )

\* the three upper limits together are accepted
C11_Witness ==
    /\ invoked.fn = "validateReading"
    /\ invoked.temp = 60 * TempUnit
    /\ invoked.hum = 100 * HumUnit
    /\ invoked.co2 = 5000
    /\ invoked.ret

\* C18: selectMuxChannel(ch) with ch > 7 returns false without any call
\* on the bus driver; for ch in 0..7 it makes exactly one transaction
\* (beginTransmission, write, endTransmission), returns true exactly when
\* the multiplexer acknowledged it, and does not repeat it on failure.
C18_SelectMuxChannel ==
    invoked.fn = "selectMuxChannel"
    => IF invoked.channel > 7
       THEN ~invoked.ret /\ invoked.bus = <<>>
       ELSE /\ invoked.ret = invoked.muxAck
            /\ invoked.bus = <<"beginTransmission", "write", "endTransmission">>

\* channel 8, which the multiplexer would have acknowledged
C18_Witness ==
    /\ invoked.fn = "selectMuxChannel"
    /\ invoked.channel = 8
    /\ invoked.muxAck
    /\ ~invoked.ret

(***************************************************************************)
(* Properties of the acquisition pipeline, continued.                      *)
(***************************************************************************)

\* C12 (scenario C): an acquire whose read delivers concentration 0 with
\* no error code returns the temperature and humidity of the channel's
\* last successful Reading, and it returns the Reading and leaves the
\* last-known-good Readings, the filters and the failure counter exactly
\* as the same call would have done had the read delivered a device error
\* code (with whatever concentration).
C12_ZeroConcentration ==
    [][ (IsAcquire(op') /\ last'.kind = "zero_co2")
        => LET ch == last'.ch
           IN  /\ last'.reading.temperature
                     = LastReading(sensors, ch).temperature
               /\ last'.reading.humidity = LastReading(sensors, ch).humidity
               /\ \A c \in {0, 800} :
                    LET e == readSensor(ch, sensors, i2cFailCount, millis,
                                        [last'.in EXCEPT !.error = 1,
                                                         !.co2 = c])
                    IN  /\ last'.reading = e.reading
                        /\ sensors' = e.sensors
                        /\ i2cFailCount' = e.i2cFailCount ]_vars

\* a zero concentration on the fruiting channel after a successful read
\* of it, with one bus failure counted
C12_Witness ==
    /\ op = "readSensor1"
    /\ last.kind = "zero_co2"
    /\ last.reading.isValid
    /\ last.reading.temperature = TempA
    /\ i2cFailCount = 1

(***************************************************************************)
(* Properties of the moving-average filter.  k is the number of values     *)
(* added since construction or the last reset, N the capacity.             *)
(***************************************************************************)

\* C13 as stated: the average (and the value the last add() returned) is
\* the arithmetic mean of the k values added when k <= N and of the last N
\* when k > N, and exactly 0 for a new or reset filter.  "Is the mean" is
\* read as widely as binary32 allows: the exact mean rounded once, or the
\* binary32 sum of those values, oldest first, divided by their number.
C13_Original ==
    LET w   == Window(inserted, filter.size)
        avg == getAverage(filter)
    IN  /\ inserted = <<>> => avg = 0
        /\ inserted # <<>>
             => avg \in { FDiv(ExactSum(w), Len(w)), FDiv(FloatSum(w), Len(w)) }
        /\ invoked.fn = "add" => invoked.ret = avg

\* C13, amended: the average is exactly 0 for a new or reset filter; for
\* k <= N it is the binary32 sum of the k values, in the order added,
\* divided by k; for k > N it is the running sum divided by N, and it
\* differs from the mean of the last N values by no more than the
\* rounding of the additions and subtractions made so far (one unit in
\* the last place of the sum per add(), spread over N) and of the
\* division.  The last add() returned this average.
C13_MovingAverage ==
    LET k   == Len(inserted)
        n   == filter.size
        w   == Window(inserted, n)
        avg == getAverage(filter)
    IN  /\ k = 0 => avg = 0
        /\ (k > 0 /\ k <= n) => avg = FDiv(FloatSum(inserted), k)
        /\ k > n => Abs(n * avg - ExactSum(w))
                       <= k * SumUlp + n * Ulp(Abs(avg))
        /\ invoked.fn = "add" => invoked.ret = avg

\* more values than the capacity of 5 were added, and the average returned
\* is neither reading of the mean of the last five
C13_Witness ==
    LET w == Window(inserted, filter.size)
    IN  /\ invoked.fn = "add"
        /\ filter.size = FILTER_SIZE
        /\ Len(inserted) > FILTER_SIZE
        /\ invoked.ret
             \notin { FDiv(ExactSum(w), Len(w)), FDiv(FloatSum(w), Len(w)) }

\* C14 as stated: the running sum equals the sum of the values in the
\* occupied slots (the exact sum rounded once, or the binary32 sum of the
\* window, oldest first), 0 <= count <= N, 0 <= index < N, and the
\* average of an empty filter is 0 without a division.
C14_Original ==
    /\ filter.sum \in { RoundF(SlotSum(filter, OccupiedSlots(filter))),
                         FloatSum(Window(inserted, filter.size)) }
    /\ filter.count >= 0 /\ filter.count <= filter.size
    /\ filter.index >= 0 /\ filter.index < filter.size
    /\ filter.count = 0 => getAverage(filter) = 0

\* C14, amended: the occupied slots hold the last min(k, N) values added;
\* the running sum is their binary32 sum in the order added while k <= N,
\* and at all times differs from their exact sum by no more than the
\* rounding of the additions and subtractions made so far (one unit in
\* the last place of the sum per add()); count = min(k, N), so
\* 0 <= count <= N; index = k mod N, so 0 <= index < N; and count is 0
\* only for an empty filter, whose average is 0 without a division.
C14_FilterInvariant ==
    LET k == Len(inserted)
        n == filter.size
        w == Window(inserted, n)
    IN  /\ filter.count = (IF k <= n THEN k ELSE n)
        /\ filter.count >= 0 /\ filter.count <= n
        /\ filter.index = k % n
        /\ filter.index >= 0 /\ filter.index < n
        /\ SlotSum(filter, OccupiedSlots(filter)) = ExactSum(w)
        /\ k <= n => filter.sum = FloatSum(inserted)
        /\ Abs(filter.sum - ExactSum(w)) <= k * SumUlp
        /\ filter.count = 0 => getAverage(filter) = 0

\* a full filter of capacity 5 whose running sum is not the sum of its
\* slots
C14_Witness ==
    /\ op = "add"
    /\ filter.size = FILTER_SIZE
    /\ filter.count = FILTER_SIZE
    /\ Len(inserted) > FILTER_SIZE
    /\ filter.sum # RoundF(SlotSum(filter, OccupiedSlots(filter)))
    /\ filter.sum # FloatSum(Window(inserted, filter.size))

\* C15: in every acquisition cycle of loop() the fruiting channel is read
\* first and the spawning channel next, with no other acquire in between;
\* an acquire on one channel leaves the other channel's last-known-good
\* Reading and both its filters unchanged; and the Reading it returns is
\* its own channel's last-known-good Reading.
C15_ChannelIsolation ==
    [][ /\ op' = "readSensor1" => (pc = "sensors" /\ pc' = "sensors2")
        /\ op' = "readSensor2" => (pc = "sensors2" /\ pc' = "watchdog")
        /\ (pc' = "sensors2" /\ pc # "sensors2") => op' = "readSensor1"
        /\ pc = "sensors2" => pc' \in {"sensors2", "watchdog"}
        /\ IsAcquire(op')
             => LET ch    == IF op' = "readSensor1" THEN 1 ELSE 2
                    other == 3 - ch
                IN  /\ last'.ch = ch
                    /\ LastReading(sensors', other)
                          = LastReading(sensors, other)
                    /\ TempFilter(sensors', other) = TempFilter(sensors, other)
                    /\ HumidityFilter(sensors', other)
                          = HumidityFilter(sensors, other)
                    /\ last'.reading = LastReading(sensors', ch) ]_vars

\* a cycle in which both channels were read successfully, the spawning
\* channel later than the fruiting channel
C15_Witness ==
    /\ op = "readSensor2"
    /\ last.kind = "ok"
    /\ fruiting.isValid
    /\ sensors.lastReading1 = fruiting
    /\ sensors.lastReading2 = last.reading
    /\ sensors.tempFilter1.count = 1
    /\ sensors.tempFilter2.count = 1

(***************************************************************************)
(* Properties of bus recovery.                                             *)
(***************************************************************************)

\* C16: recovery issues at most 9 clock pulses, reads the data line after
\* each pulse, and issues no pulse after the data line has read high; if
\* the line is released after pulse k (1 <= k <= 9) exactly k pulses are
\* issued, and exactly 9 if it is never released.
C16_ClockPulses ==
    LET t == rec.trace
    IN  /\ rec.pulses <= 9
        /\ rec.pulses = Cardinality({j \in 1 .. Len(t) : t[j] = "pulse"})
        /\ \A j \in 1 .. Len(t) :
             t[j] = "pulse"
             => /\ j < Len(t) => t[j + 1] \in {"read:HIGH", "read:LOW"}
                /\ j = Len(t) => rec.pc = "digitalRead"
                /\ \A h \in 1 .. j : t[h] # "read:HIGH"
        /\ \A j \in 1 .. Len(t) :
             t[j] \in {"read:HIGH", "read:LOW"}
             => /\ t[j - 1] = "pulse"
                /\ (t[j] = "read:HIGH")
                     = ( /\ rec.sdaRelease # 0
                         /\ Cardinality({h \in 1 .. j : t[h] = "pulse"})
                              >= rec.sdaRelease )
        /\ LoopDone
             => /\ rec.pulses = PulsesFor(rec.sdaRelease)
                /\ recoverI2CBus(rec.sdaRelease).pulses = rec.pulses

\* the data line was released after the fourth pulse
C16_Witness ==
    /\ rec.pc = "return"
    /\ rec.sdaRelease = 4
    /\ rec.pulses = 4

\* C17: recovery does, in this order: disable the bus driver, make the
\* clock pin an output and the data pin a pulled-up input, pulse the
\* clock, drive a STOP (data low, clock high, data high), enable the bus
\* driver again.  The driver is disabled exactly from the first step to
\* the last, so it is enabled whenever recovery has returned, whether the
\* data line was released or not, and every bus transaction of an acquire
\* finds it enabled.  Once entered, recovery returns.
C17_RecoverySteps ==
    /\ [] /\ IsPrefix(rec.trace, RecoveryTrace(rec.sdaRelease))
          /\ rec.pc \in {"return", "idle"} /\ rec.trace # <<>>
               => rec.trace = RecoveryTrace(rec.sdaRelease)
          /\ rec.pc \in {"idle", "return", "Wire.end"} => rec.wire
          /\ rec.pc \in {"pinMode", "for", "pulse", "digitalRead", "stop",
                          "Wire.begin"} => ~rec.wire
          /\ rec.pc \in {"for", "pulse", "digitalRead"}
               => rec.sclMode = "OUTPUT" /\ rec.sdaMode = "INPUT_PULLUP"
          /\ invoked.fn = "transaction" => invoked.wire
    /\ (rec.pc = "Wire.end") ~> (rec.pc = "return")

\* a bus transaction after a recovery during which the data line was
\* never released
C17_Witness ==
    /\ op = "transaction"
    /\ rec.pc = "idle"
    /\ rec.sdaRelease = 0
    /\ rec.pulses = 9
    /\ rec.wire

(***************************************************************************)
(* Properties of the firmware, continued.                                  *)
(***************************************************************************)

\* what makes sensors.begin() fail according to the design
BeginFault(in) ==
    \/ ~in.muxDetected
    \/ ~in.muxAck1
    \/ ~in.muxAck2
    \/ in.error1 # 0
    \/ in.error2 # 0

\* setup() is in its error loop: the watchdog was never started and
\* nothing was acquired, reported or commanded
FatalInitHalt ==
    /\ pc = "halted"
    /\ ~invoked.ret
    /\ ~began
    /\ ~watchdog.isActive
    /\ lastCall = "construct"
    /\ last.kind = "none"
    /\ sensors = SensorManager
    /\ telemetry = <<>>
    /\ bytes = 0
    /\ bufferPos = 0
    /\ states = [i \in 0 .. 7 |-> FALSE]

\* C19: when sensors.begin() fails (the multiplexer is not detected, a
\* channel select fails or either sensor does not start measuring),
\* setup() never returns: from then on the firmware stays in the error
\* loop, the watchdog is not started, and no acquire is made, no telemetry
\* message sent and no byte of a command read.
C19_FatalInit ==
    [][ /\ (invoked'.fn = "begin" /\ BeginFault(invoked'.in))
             => FatalInitHalt'
        /\ pc = "halted" => pc' = "halted" ]_vars

\* time has passed in the error loop after the second sensor failed to
\* start
C19_Witness ==
    /\ pc = "halted"
    /\ invoked.fn = "begin"
    /\ invoked.in.muxDetected /\ invoked.in.muxAck1 /\ invoked.in.muxAck2
    /\ invoked.in.error1 = 0 /\ invoked.in.error2 = 1
    /\ ticks = MaxMainTicks
    /\ ~watchdog.isActive

\* C20: for every byte read from the host, whatever it is and whatever
\* the line it belongs to (a line that fails to parse, a line longer than
\* the buffer whose bytes are dropped), watchdog.heartbeat() is called,
\* so the last-heartbeat time is the time of the byte; and a line that
\* parses to a document with the key "keepalive" changes no actuator
\* state, whatever else the document holds.
C20_HeartbeatPerByte ==
    [][ op' = "byte"
        => /\ lastCall' = "heartbeat"
           /\ watchdog'.lastHeartbeat = millis
           /\ ~watchdog'.hasTriggered
           /\ invoked'.line.kind = "keepalive" => states' = states ]_vars

\* with the first actuator on, a keepalive line whose other fields name
\* that actuator and the state off arrived some time after the previous
\* byte
C20_Witness ==
    /\ op = "byte"
    /\ invoked.line.kind = "keepalive"
    /\ invoked.line.type = 0
    /\ ~invoked.line.on
    /\ states[0]
    /\ watchdog.lastHeartbeat = millis
    /\ millis # U32(0)

\* a byte dropped because the line is longer than the buffer
C20_OverlongByte ==
    /\ op = "byte"
    /\ invoked.full
    /\ invoked.byte = "char"
    /\ bufferPos = SerialBufferSize - 1
    /\ watchdog.lastHeartbeat = millis
    /\ millis # U32(0)

(***************************************************************************)
(* Properties of the acquisition pipeline under faults.                    *)
(***************************************************************************)

\* C21: once every channel select fails forever, every acquire call
\* returns the channel's last-known-good Reading and leaves the sensor
\* state as it was; bus recovery is invoked in exactly the calls that are
\* the 3rd bus failure since the last successful read or recovery,
\* whatever the channels of the three, and so again and again for ever;
\* and the pipeline is never stuck: a good sample on either channel would
\* still be accepted and returned as a valid Reading.
C21_PermanentFault ==
    /\ [][ (pipe.fault /\ IsAcquire(op'))
            => /\ last'.reading = LastReading(sensors, last'.ch)
               /\ sensors' = sensors
               /\ last'.recovered
                     = (BusFailures(pipe.run) + 1 = I2C_RECOVERY_RETRIES)
               /\ \A ch \in {1, 2} :
                    LET g == readSensor(ch, sensors', i2cFailCount', millis,
                                        GoodSample)
                    IN  g.reading.isValid /\ g.i2cFailCount = 0 ]_vars
    /\ pipe.fault ~> (pipe.fault /\ BusFailures(pipe.run) = 1)
    /\ (pipe.fault /\ BusFailures(pipe.run) = 1)
          ~> (pipe.fault /\ IsAcquire(op) /\ last.recovered
                /\ pipe.run = <<>>)

\* the second recovery under the fault, made by an acquire on the spawning
\* channel that returned the valid Reading of the last successful read,
\* the data line not having been released
C21_Witness ==
    /\ pipe.fault
    /\ pipe.recoveries = 2
    /\ op = "readSensor2"
    /\ last.recovered
    /\ last.recovery = [pulses |-> 9, released |-> FALSE]
    /\ last.reading.isValid
    /\ last.reading = sensors.lastReading2

(***************************************************************************)
(* Properties of the watchdog, continued.                                  *)
(***************************************************************************)

\* C22: checkTimeout() on a started watchdog that has not fired since
\* lastHeartbeat was last written: when now - lastHeartbeat equals the
\* timeout exactly it returns false and triggered stays false; when
\* now - lastHeartbeat >= timeout + 1 it returns true, sets triggered and
\* records triggeredAt = now.
C22_StrictOverrun ==
    [][ (began /\ op' = "checkTimeout" /\ episodeFires = 0)
        => /\ Elapsed = watchdog.timeout
                => /\ ret' = FALSE
                   /\ ~watchdog'.hasTriggered
                   /\ watchdog' = watchdog
           /\ Ge32(Elapsed, Add32(watchdog.timeout, U32(1)))
                => /\ ret' = TRUE
                   /\ watchdog'.hasTriggered
                   /\ watchdog'.triggeredAt = millis ]_vars

\* a poll exactly one timeout after a heartbeat has not fired
C22_Witness ==
    /\ began /\ op = "checkTimeout" /\ lastCall = "checkTimeout"
    /\ Elapsed = watchdog.timeout
    /\ watchdog.lastHeartbeat # U32(0)
    /\ ret = FALSE
    /\ ~watchdog.hasTriggered

\* a poll one millisecond later has fired
C22_FiredOneLater ==
    /\ began /\ op = "checkTimeout"
    /\ Elapsed = Add32(watchdog.timeout, U32(1))
    /\ ret = TRUE
    /\ watchdog.hasTriggered
    /\ watchdog.triggeredAt = millis

\* C23: before begin() is called, checkTimeout() returns false and leaves
\* the watchdog as it is however much time has elapsed, triggered is never
\* set and isSafe() is true, and heartbeat() returns false and does not
\* arm the watchdog; in every state isSafe() is true iff triggered is
\* false; begin() arms the watchdog with lastHeartbeat = now,
\* triggered = false and recoveryCount = 0.
C23_IdleState ==
    [][ /\ ~began'
             => /\ ~watchdog'.isActive
                /\ ~watchdog'.hasTriggered
                /\ isSafe(watchdog')
        /\ (~began /\ op' = "checkTimeout")
             => ret' = FALSE /\ watchdog' = watchdog
        /\ (~began /\ op' = "heartbeat")
             => /\ ret' = FALSE
                /\ watchdog' = [watchdog EXCEPT !.lastHeartbeat = millis]
        /\ isSafe(watchdog') = ~watchdog'.hasTriggered
        /\ op' = "begin"
             => /\ watchdog'.isActive
                /\ watchdog'.lastHeartbeat = millis
                /\ ~watchdog'.hasTriggered
                /\ watchdog'.recoveryCount = 0 ]_vars

\* a poll of a watchdog that was never started, longer than the timeout
\* after the heartbeat it was given
C23_Witness ==
    /\ ~began /\ op = "checkTimeout" /\ ret = FALSE
    /\ hbSinceTrigger
    /\ watchdog.lastHeartbeat # U32(0)
    /\ Gt32(Elapsed, watchdog.timeout)
    /\ isSafe(watchdog)
    /\ ~watchdog.isActive

\* C24: an acquire call that gets a device error code, a zero
\* concentration or an out-of-range value (the select having succeeded
\* and no bus timeout seen) leaves the failure counter as it was and does
\* not invoke recovery; so the bus failures before and after it still add
\* up: the 3rd bus failure since the last successful read or recovery
\* invokes recovery whatever such calls were made in between.
C24_QuietFailures ==
    [][ IsAcquire(op')
        => /\ last'.kind \in QuietKinds
                => /\ i2cFailCount' = i2cFailCount
                   /\ ~last'.recovered
                   /\ last'.recovery = NoRecovery
           /\ (last'.kind \in BusFailureKinds
                 /\ BusFailures(pipe.run) = I2C_RECOVERY_RETRIES - 1)
                => last'.recovered /\ i2cFailCount' = 0 ]_vars

\* after two select failures, a device error code has left the count of
\* two standing
C24_Witness ==
    /\ IsAcquire(op)
    /\ last.kind = "device_error"
    /\ pipe.run = << <<1, "select_fail">>, <<2, "select_fail">>,
                     <<1, "device_error">> >>
    /\ i2cFailCount = 2
    /\ ~last.recovered

\* recovery at the 3rd bus failure, an out-of-range sample having been read
\* after the 1st
C24_RecoveryAcrossQuiet ==
    /\ IsAcquire(op)
    /\ last.kind = "select_fail"
    /\ last.recovered
    /\ pipe.led = << <<1, "select_fail">>, <<1, "out_of_range">>,
                     <<2, "select_fail">>, <<2, "select_fail">> >>

\* C25: the failure counter is one counter for both channels: after a bus
\* failure (select failure or bus timeout) it holds the number of bus
\* failures, on whichever channels, since the last successful read on
\* either channel or the last recovery (0 when that number reaches 3);
\* select failures on channel 1, channel 2 and channel 1 invoke recovery
\* in the third call; and recovery is invoked only in a call that is
\* itself a bus failure and at least the 3rd such since then.
C25_SharedCounter ==
    [][ IsAcquire(op')
        => /\ last'.kind \in BusFailureKinds
                => i2cFailCount'
                     = (BusFailures(pipe.run) + 1) % I2C_RECOVERY_RETRIES
           /\ ( /\ pipe.run = << <<1, "select_fail">>, <<2, "select_fail">> >>
                /\ op' = "readSensor1"
                /\ last'.kind = "select_fail" )
                => last'.recovered
           /\ last'.recovered
                => /\ last'.kind \in BusFailureKinds
                   /\ BusFailures(pipe.run) + 1 >= I2C_RECOVERY_RETRIES ]_vars

\* recovery in an acquire on channel 1 whose select failed, after a select
\* failure on channel 1 and one on channel 2
C25_Witness ==
    /\ op = "readSensor1"
    /\ last.kind = "select_fail"
    /\ last.recovered
    /\ pipe.led = << <<1, "select_fail">>, <<2, "select_fail">>,
                     <<1, "select_fail">> >>
    /\ pipe.run = <<>>
    /\ i2cFailCount = 0

\* C26: whenever no acquire call is in progress, the failure counter is
\* one of 0 .. threshold - 1: it is below the recovery threshold when an
\* acquire call returns, hence far from the limit of its 8 bits.
C26_CounterRange ==
    /\ i2cFailCount >= 0
    /\ i2cFailCount <= I2C_RECOVERY_RETRIES - 1
    /\ i2cFailCount < 255

\* the acquire call that counted the 3rd bus failure, a bus timeout, has
\* returned with the counter back at 0
C26_Witness ==
    /\ IsAcquire(op)
    /\ last.kind = "timeout"
    /\ last.recovered
    /\ i2cFailCount = 0

\* two bus failures are counted
C26_CounterAtTwo ==
    /\ IsAcquire(op)
    /\ last.kind \in BusFailureKinds
    /\ ~last.recovered
    /\ i2cFailCount = I2C_RECOVERY_RETRIES - 1

\* C27: per channel, once an acquire call on the channel has returned a
\* Reading with valid = true, every later acquire call on that channel
\* returns a Reading with valid = true, whatever its outcome; a Reading
\* with valid = false is returned only by a call on a channel that has
\* never been read successfully, that call included.
C27_ValidityMonotone ==
    [][ IsAcquire(op')
        => LET ch == last'.ch
           IN  /\ ch \in pipe.valid => last'.reading.isValid
               /\ ~last'.reading.isValid
                    => ch \notin pipe.read /\ ch \notin pipe'.read
               /\ pipe'.valid = pipe'.read ]_vars

\* a good sample on channel 1, then a device error code on channel 1
\* answered with a valid Reading, while channel 2, never read
\* successfully, has only returned invalid Readings
C27_Witness ==
    /\ op = "readSensor1"
    /\ last.kind = "device_error"
    /\ last.reading.isValid
    /\ pipe.valid = {1}
    /\ pipe.read = {1}
    /\ pipe.run = << <<2, "select_fail">>, <<1, "device_error">> >>
    /\ ~sensors.lastReading2.isValid

\* C28: for each channel, whatever acquire calls have been made, the
\* temperature of the stored last-known-good Reading is the current
\* average of the channel's temperature filter and its humidity the
\* current average of its humidity filter; before the channel's first
\* successful read both are 0, the Reading has valid = false and the
\* filters are empty, and afterwards the Reading has valid = true and the
\* two filters hold the same number of samples.
C28_LastGoodIsFilterAverage ==
    \A ch \in {1, 2} :
        LET lkg == LastReading(sensors, ch)
            tf  == TempFilter(sensors, ch)
            hf  == HumidityFilter(sensors, ch)
        IN  /\ lkg.temperature = getAverage(tf)
            /\ lkg.humidity = getAverage(hf)
            /\ tf.count = hf.count
            /\ lkg.isValid = (tf.count > 0)
            /\ ~lkg.isValid
                 => /\ lkg.temperature = 0
                    /\ lkg.humidity = 0
                    /\ tf = MovingAverageFilter(FILTER_SIZE)
                    /\ hf = MovingAverageFilter(FILTER_SIZE)

\* channel 1 has averaged two different samples and then discarded an
\* out-of-range one; channel 2 has never been read successfully
C28_Witness ==
    /\ op = "readSensor1"
    /\ last.kind = "out_of_range"
    /\ sensors.tempFilter1.count = 2
    /\ sensors.lastReading1.isValid
    /\ sensors.lastReading1.temperature \notin {TempA, TempB}
    /\ sensors.lastReading1.temperature = getAverage(sensors.tempFilter1)
    /\ ~sensors.lastReading2.isValid
    /\ sensors.tempFilter2.count = 0

(***************************************************************************)
(* Properties of the main loop, continued.                                 *)
(***************************************************************************)
AllOff(st) == \A i \in 0 .. 7 : ~st[i]

C29_OffAfterRecovery ==
    /\ op = "byte"
    /\ ret = TRUE
    /\ watchdog.recoveryCount = 1
    /\ ~watchdog.hasTriggered
    /\ bufferPos = 1
    /\ AllOff(states)

\* the command that followed the recovery has switched an actuator on
C29_OnAfterCommand ==
    /\ op = "byte"
    /\ watchdog.recoveryCount = 1
    /\ ~watchdog.hasTriggered
    /\ states[0]

(***************************************************************************)
(* Properties of the watchdog used as the firmware uses it.                *)
(***************************************************************************)

\* C30: for a watchdog started once with begin() and never reset(), the
\* number of checkTimeout() calls that have returned true is
\* recoveryCount + (1 if triggered else 0) in every state; timeouts and
\* recoveries alternate (a timeout is reported only when every earlier
\* one has been followed by a recovery, a recovery only when one timeout
\* is outstanding); and after a recovery the next checkTimeout() that
\* sees the timeout exceeded fires again.
C30_FiresAndRecoveries ==
    [][ /\ fires' = watchdog'.recoveryCount
                       + (IF watchdog'.hasTriggered THEN 1 ELSE 0)
        /\ (op' = "checkTimeout" /\ ret')
             => /\ fires = watchdog.recoveryCount
                /\ fires' = fires + 1
        /\ (op' = "heartbeat" /\ ret')
             => /\ fires = watchdog.recoveryCount + 1
                /\ fires' = fires
        /\ ( /\ began /\ op' = "checkTimeout"
             /\ watchdog.recoveryCount > 0 /\ ~watchdog.hasTriggered
             /\ Gt32(Elapsed, watchdog.timeout) )
             => ret' /\ watchdog'.hasTriggered ]_vars

\* the watchdog has fired, recovered and fired again
C30_Witness ==
    /\ began
    /\ op = "checkTimeout"
    /\ ret = TRUE
    /\ fires = 2
    /\ watchdog.recoveryCount = 1
    /\ watchdog.hasTriggered

\* the clock has wrapped since lastHeartbeat was written
Wrapped == Gt32(watchdog.lastHeartbeat, millis)

\* C31: checkTimeout() computes the elapsed time as now - lastHeartbeat
\* modulo 2^32, which is the time that has really passed since the last
\* heartbeat modulo 2^32 wherever the clock stands and whether or not it
\* has wrapped in between.  So when fewer than 2^32 ms have really
\* passed: if that is at most the timeout the call returns false and
\* changes nothing, and if it is more than the timeout the call on a
\* started watchdog that has not fired yet returns true and sets
\* triggered.
C31_WrapSafeElapsed ==
    [][ (op' = "checkTimeout" /\ quiet.known)
        => /\ Elapsed = quiet.ms
           /\ (quiet.laps = 0 /\ ~Gt32(quiet.ms, watchdog.timeout))
                => /\ ret' = FALSE
                   /\ watchdog' = watchdog
           /\ ( /\ quiet.laps = 0
                /\ Gt32(quiet.ms, watchdog.timeout)
                /\ watchdog.isActive
                /\ ~watchdog.hasTriggered )
                => /\ ret' = TRUE
                   /\ watchdog'.hasTriggered
                   /\ watchdog'.triggeredAt = millis ]_vars

\* the clock wrapped between the heartbeat and the poll, exactly one
\* timeout has passed, and the poll has not fired
C31_Witness ==
    /\ began /\ op = "checkTimeout" /\ lastCall = "checkTimeout"
    /\ hbSinceTrigger
    /\ Wrapped
    /\ quiet = [known |-> TRUE, laps |-> 0, ms |-> watchdog.timeout]
    /\ ret = FALSE
    /\ ~watchdog.hasTriggered

\* the clock wrapped between the heartbeat and the poll, one millisecond
\* more than the timeout has passed, and the poll has fired
C31_FiredAcrossWrap ==
    /\ began /\ op = "checkTimeout"
    /\ Wrapped
    /\ quiet = [known |-> TRUE, laps |-> 0,
                ms |-> Add32(watchdog.timeout, U32(1))]
    /\ ret = TRUE
    /\ watchdog.hasTriggered
    /\ watchdog.triggeredAt = millis

\* a silence of a whole lap and less than the timeout more is not seen
\* by the poll
C31_WholeLapUnseen ==
    /\ began /\ op = "checkTimeout"
    /\ quiet.known /\ quiet.laps = 1
    /\ ~Gt32(quiet.ms, watchdog.timeout)
    /\ ret = FALSE
    /\ ~watchdog.hasTriggered

(***************************************************************************)
(* Properties of the serial line buffer.                                   *)
(***************************************************************************)

\* the line that the last byte completed was rejected: it did not parse,
\* lacked the actuator or the state field, or named an unknown actuator
Rejected(line) ==
    \/ line.kind \in {"error", "missing"}
    \/ line.kind = "command" /\ line.type = 0 - 1

\* C32: in handleSerialCommands, for every received byte: the position
\* in the 128-byte line buffer is between 0 and 127 before and after the
\* byte and whatever is written goes to an index between 0 and 127; a
\* byte other than a line end that finds 127 bytes buffered is dropped
\* (nothing is written, the position stays 127, no actuator changes); the
\* terminator of a non-empty line is written at the position, inside the
\* buffer, and the position is 0 afterwards; and a line that fails to
\* parse, lacks the actuator or state field or names an unknown actuator
\* leaves every actuator state as it was.
C32_LineBuffer ==
    [][ op' = "byte"
        => LET byte == invoked'.byte
               at   == storedAt(bufferPos, byte)
           IN  /\ bufferPos \in 0 .. SerialBufferSize - 1
               /\ bufferPos' \in 0 .. SerialBufferSize - 1
               /\ at \in {0 - 1} \cup (0 .. SerialBufferSize - 1)
               /\ (byte = "char" /\ bufferPos < SerialBufferSize - 1)
                    => /\ at = bufferPos
                       /\ bufferPos' = bufferPos + 1
               /\ (byte = "char" /\ bufferPos = SerialBufferSize - 1)
                    => /\ at = 0 - 1
                       /\ bufferPos' = bufferPos
                       /\ states' = states
               /\ (byte = "eol" /\ bufferPos > 0)
                    => /\ at = bufferPos
                       /\ bufferPos' = 0
                       /\ invoked'.line.kind # "none"
                       /\ Rejected(invoked'.line) => states' = states
               /\ (byte = "eol" /\ bufferPos = 0)
                    => /\ at = 0 - 1
                       /\ bufferPos' = 0
                       /\ states' = states ]_vars

\* a line of more than 127 bytes has been terminated while an actuator
\* was on: the line was cut at 127 bytes, did not parse, and the position
\* is back at 0 with the actuator still on
C32_Witness ==
    /\ op = "byte"
    /\ invoked.byte = "eol" /\ invoked.full
    /\ invoked.line = [kind |-> "error"]
    /\ bufferPos = 0
    /\ states[0]

\* a byte has found the buffer full and was dropped
C32_ByteDropped ==
    /\ op = "byte"
    /\ invoked.byte = "char" /\ invoked.full
    /\ bufferPos = SerialBufferSize - 1

\* a line naming an unknown actuator, asking for off, has been received
\* while an actuator was on, and the actuator is still on
C32_UnknownActuator ==
    /\ op = "byte"
    /\ invoked.line = [kind |-> "command", type |-> 0 - 1, on |-> FALSE]
    /\ bufferPos = 0
    /\ states[0]

====
